---- MODULE Spec2Model ----
(***************************************************************************)
(* Model of github.com/vgarvardt/slogex/observer: the in-memory stores of  *)
(* observed log records (ObservedLogsDefault, ObservedLogsRing), their     *)
(* filters, and the slog.Handler that feeds them (contextObserver).        *)
(*                                                                         *)
(* Go slices are modelled as what they are: a header [arr, len, cap] that  *)
(* points into a backing array kept in `heap`.  Two headers with the same  *)
(* arr share storage, so a write through one is seen through the other.    *)
(***************************************************************************)
EXTENDS Integers, Sequences, FiniteSets, TLC

VARIABLES
    maxLogs,    \* HandlerOptions.MaxLogs the store was created with
    store,      \* the ObservedLogsDefault: [fixed, size, logs, cap]
    filtered,   \* the store returned by the last Filter call
    heap,       \* backing arrays of []slog.Attr slices, by array id
    panicked,   \* a runtime panic (slice bounds / index out of range) happened
    ret,        \* what the last store call returned: [op, logs, n]
    hist,       \* history: records passed to Add since the last TakeAll, ...
    mu,         \* the store's sync.RWMutex: [w: writer holding it or 0, r: readers]
    pc,         \* where each goroutine is in its store call
    arg,        \* the LoggedRecord each goroutine's Add is storing
    taken,      \* the slices TakeAll calls have returned, in lock order
    handlers,   \* the contextObserver values created so far:
                \* [opts, attrs, groups]
    chain,      \* history: how each handler was derived
    calls,      \* history: the Handle calls made, [by, rec]
    levelVar,   \* the level held by the slog.LevelVar given as opts.Level
    enabled,    \* the last Enabled call: [by, level, at, ok]
    query,      \* the predicates of the last Filter call, in call order
    ring,       \* the ObservedLogsRing given the calls the store is given:
                \* [fixed, size, over, logs, cap]
    ringRet,    \* what the last call on the ring returned: [op, logs, n]
    ringPanicked, \* a runtime panic happened in a call on the ring
    snap,       \* the slice a caller got from All: [logs, shared, orig]
    mapped,     \* an AttrsMap call: the record's Attrs, the map returned
    elsewhere,  \* records added to a store other than the one New returned
    local,      \* per goroutine: the store fields its Add has read
    ringFiltered, \* the store the last Filter call on the ring returned
    versions,   \* history: the contents the store had, oldest first
    fx          \* the fxlogger.Logger: [logLevel, errorLevel]

vars == <<maxLogs, store, filtered, heap, panicked, ret, hist,
          mu, pc, arg, taken, handlers, chain, calls, levelVar, enabled,
          query, ring, ringRet, ringPanicked, snap,
          mapped, elsewhere, local, ringFiltered, versions, fx>>

\* State of the ring, untouched where only one store is called.
ringVars == <<ring, ringRet, ringPanicked, ringFiltered>>

\* State of the minimum level, untouched where Enabled is not called.
levelVars == <<levelVar, enabled>>

\* State of the handlers, untouched by the specifications of the store.
handlerVars == <<handlers, chain, calls>>

\* State of the goroutines, untouched by the single-caller specifications.
threadVars == <<mu, pc, arg, taken>>

----------------------------------------------------------------------------
(* Bounds *)

MaxK     == 2    \* MaxLogs ranges over 0..MaxK (0 = unbounded)
MaxAdds  == 4    \* Add calls in one behaviour
MaxTakes == 2    \* TakeAll calls in one behaviour
NThreads == 2    \* goroutines calling the store concurrently
MaxHandlers == 4 \* handlers in one behaviour, the one New returns included
MaxHandled  == 1 \* Handle calls in one behaviour
MaxDerived  == 1 \* handlers derived where a minimum level is set
MaxStored   == 3 \* records in the store that is filtered
MaxWrites   == 1 \* writes of a caller into one slice it got from All
MaxAttrs    == 2 \* attributes of the record AttrsMap is called on
MaxLogged   == 2 \* Handle calls of a logger and the loggers derived from it
MaxCalls    == 3 \* calls of goroutines that read and write one store
MaxOutputs  == 1 \* output types of a Provided, Replaced or Decorated event

----------------------------------------------------------------------------
(* slog.Attr, slog.Record and slices *)

IntAttr(k, n) == [Key |-> k, Kind |-> "Int64", Num |-> n, Group |-> <<>>]

\* slog.Attr{Key: k, Value: <group over as>}
GroupAttr(k, as) == [Key |-> k, Kind |-> "Group", Num |-> 0, Group |-> as]

\* The zero slog.Attr, the content of an array cell nobody wrote yet.
ZeroAttr == [Key |-> "", Kind |-> "Any", Num |-> 0, Group |-> <<>>]

\* slog.Level values.
LevelDebug == 0 - 4
LevelInfo  == 0
LevelWarn  == 4
LevelError == 8

\* A slog.Leveler: nil, a slog.Level, or a pointer to the slog.LevelVar whose
\* value is `levelVar`.
NilLeveler      == [kind |-> "nil", v |-> 0]
ConstLeveler(l) == [kind |-> "Level", v |-> l]
VarLeveler      == [kind |-> "LevelVar", v |-> 0]

\* lv.Level() when the LevelVar holds lvVar.
LevelerLevel(lv, lvVar) == IF lv.kind = "LevelVar" THEN lvVar ELSE lv.v

\* slog.Any(k, []string{...}): the payload is a slice, and n > 0 names its
\* elements.  Num = 0 in an attribute of kind Any is the nil payload.
SliceAttr(k, n) == [Key |-> k, Kind |-> "Any", Num |-> n, Group |-> <<>>]

\* A nil slice.
NilSlice == [arr |-> 0, len |-> 0, cap |-> 0]

\* The elements a slice header denotes in heap h.
Elems(h, s) == IF s.len = 0 THEN <<>> ELSE SubSeq(h[s.arr], 1, s.len)

\* LoggedRecord{Record: record, Attrs: attrs}
LoggedRecord(record, attrs) == [Record |-> record, Attrs |-> attrs]

\* Capacity the runtime gives a slice that append has to reallocate:
\* double the old capacity unless more is needed.
GrowCap(old, needed) == IF needed > 2 * old THEN needed ELSE 2 * old

----------------------------------------------------------------------------
(* ObservedLogsDefault *)

NewObservedLogsDefault(k) ==
    [fixed |-> k > 0, size |-> 0, logs |-> <<>>, cap |-> k]

DefaultLen(o) == Len(o.logs)

\* Mutant of All: make([]LoggedRecord, 0, len(o.logs)), so copy copies nothing.
DefaultAllZeroLen(o) == <<>>

\* make + copy: a fresh slice with the same elements.
DefaultAll(o) == [i \in 1..Len(o.logs) |-> o.logs[i]]

\* Mutant of TakeAll: o.logs is truncated in place (o.logs = o.logs[:0])
\* before it is read.
DefaultTakeAllTruncFirst(o) ==
    [ret |-> <<>>, o |-> [o EXCEPT !.logs = <<>>]]

\* Mutant of TakeAll: o.logs = nil is lost.
DefaultTakeAllKeep(o) == [ret |-> o.logs, o |-> o]

\* ret := o.logs; o.logs = nil
DefaultTakeAll(o) ==
    [ret |-> o.logs, o |-> [o EXCEPT !.logs = <<>>, !.cap = 0]]

\* Mutant of Add: the fixed/size test is lost, every record is appended.
DefaultAddAlwaysAppend(o, lr) ==
    [o |-> [o EXCEPT !.size = @ + 1, !.logs = Append(o.logs, lr),
                     !.cap  = IF Len(o.logs) + 1 <= o.cap
                              THEN o.cap
                              ELSE GrowCap(o.cap, Len(o.logs) + 1)],
     panic |-> FALSE]

\* Mutant of Add: the copy that shifts the records left is lost, so a full
\* store overwrites its newest record instead of evicting its oldest.
DefaultAddNoShift(o, lr) ==
    LET size1 == o.size + 1 IN
    IF o.fixed /\ size1 > o.cap
    THEN IF size1 - 1 < 1 \/ size1 - 1 > Len(o.logs)
         THEN [o |-> [o EXCEPT !.size = size1 - 1], panic |-> TRUE]
         ELSE [o |-> [o EXCEPT !.size = size1 - 1,
                               !.logs = [o.logs EXCEPT ![size1 - 1] = lr]],
               panic |-> FALSE]
    ELSE [o |-> [o EXCEPT !.size = size1,
                          !.logs = Append(o.logs, lr),
                          !.cap  = IF Len(o.logs) + 1 <= o.cap
                                   THEN o.cap
                                   ELSE GrowCap(o.cap, Len(o.logs) + 1)],
          panic |-> FALSE]

\* The result is the store after the call and whether the call panicked.
\* o.logs[1:] panics when len(o.logs) = 0, o.logs[o.size-1] when the index
\* is outside 0..len(o.logs)-1; size was incremented before either.
DefaultAdd(o, lr) ==
    LET size1 == o.size + 1 IN
    IF o.fixed /\ size1 > o.cap
    THEN IF Len(o.logs) < 1
         THEN [o |-> [o EXCEPT !.size = size1], panic |-> TRUE]
         ELSE LET shifted == Tail(o.logs) \o <<o.logs[Len(o.logs)]>>
                  size2   == size1 - 1
              IN  IF size2 < 1 \/ size2 > Len(shifted)
                  THEN [o |-> [o EXCEPT !.size = size2, !.logs = shifted],
                        panic |-> TRUE]
                  ELSE [o |-> [o EXCEPT !.size = size2,
                                        !.logs = [shifted EXCEPT ![size2] = lr]],
                        panic |-> FALSE]
    ELSE [o |-> [o EXCEPT !.size = size1,
                          !.logs = Append(o.logs, lr),
                          !.cap  = IF Len(o.logs) + 1 <= o.cap
                                   THEN o.cap
                                   ELSE GrowCap(o.cap, Len(o.logs) + 1)],
          panic |-> FALSE]

\* The predicates handed to Filter: FilterMessage(msg)'s closure.
Keep(msg, lr) == lr.Record.Message = msg

RECURSIVE FilterSeq(_, _)
FilterSeq(logs, msg) ==
    IF logs = <<>> THEN <<>>
    ELSE (IF Keep(msg, Head(logs)) THEN <<Head(logs)>> ELSE <<>>)
         \o FilterSeq(Tail(logs), msg)

\* &ObservedLogsDefault{logs: filtered}
DefaultFilter(o, msg) ==
    LET f == FilterSeq(o.logs, msg) IN
    [fixed |-> FALSE, size |-> 0, logs |-> f, cap |-> Len(f)]

\* What a call that may panic gives: its result, or a panic.
Yes   == [ok |-> TRUE, panic |-> FALSE]
No    == [ok |-> FALSE, panic |-> FALSE]
Panic == [ok |-> FALSE, panic |-> TRUE]

\* a.Equal(attr) for attributes of one kind that is not Group:
\* a.Key == attr.Key && a.Value.Equal(attr.Value).  For the kind Any,
\* Value.Equal evaluates v.any == w.any, which panics when both interfaces
\* hold a slice.
AttrEqual(a, attr) ==
    IF a.Key # attr.Key THEN No
    ELSE IF a.Kind = "Any"
    THEN IF a.Num # 0 /\ attr.Num # 0 THEN Panic
         ELSE IF a.Num = attr.Num THEN Yes ELSE No
    ELSE IF a.Num = attr.Num THEN Yes ELSE No

\* reflect.DeepEqual(a.Value.Any(), attr.Value.Any())
DeepEqual(a, attr) == a.Num = attr.Num

\* filterAttr(attrs, attr): a group is searched and then passed over, any
\* other attribute is compared when its key and kind are the target's.
RECURSIVE filterAttr(_, _)
filterAttr(attrs, attr) ==
    IF attrs = <<>> THEN No
    ELSE LET a    == Head(attrs)
             kind == a.Kind
         IN  IF kind = "Group"
             THEN LET r == filterAttr(a.Group, attr) IN
                  IF r.panic \/ r.ok THEN r
                  ELSE filterAttr(Tail(attrs), attr)
             ELSE IF a.Key # attr.Key \/ kind # attr.Kind
             THEN filterAttr(Tail(attrs), attr)
             ELSE IF kind = "Any" /\ DeepEqual(a, attr) THEN Yes
             ELSE LET e == AttrEqual(a, attr) IN
                  IF e.panic \/ e.ok THEN e
                  ELSE filterAttr(Tail(attrs), attr)

\* The predicates handed to Filter: the closures of FilterMessage and
\* FilterAttr, and func(r) bool { return l(r) && r(r) }.
\* The characters of the strings used as messages and snippets.
Chars(s) ==
    CASE s = ""    -> <<>>
      [] s = "a"   -> <<"a">>
      [] s = "b"   -> <<"b">>
      [] s = "."   -> <<".">>
      [] s = "ab"  -> <<"a", "b">>
      [] s = "ba"  -> <<"b", "a">>
      [] s = "a.b" -> <<"a", ".", "b">>
      [] s = "b*"  -> <<"b", "*">>

\* strings.Index(s, substr) on the characters: the first place from i on
\* where substr starts in s, 0 when there is none.
RECURSIVE StringsIndex(_, _, _)
StringsIndex(s, substr, i) ==
    IF i + Len(substr) - 1 > Len(s) THEN 0
    ELSE IF SubSeq(s, i, i + Len(substr) - 1) = substr THEN i
    ELSE StringsIndex(s, substr, i + 1)

\* strings.Contains(s, substr): Index(s, substr) >= 0, places counted from 1
\* here.
StringsContains(s, substr) == StringsIndex(Chars(s), Chars(substr), 1) >= 1

\* Whether an attribute of attrs or of a group in attrs, at any depth, has
\* the key.
RECURSIVE KeyAtAnyDepth(_, _)
KeyAtAnyDepth(attrs, key) ==
    \E i \in 1..Len(attrs) :
        \/ attrs[i].Key = key
        \/ attrs[i].Kind = "Group" /\ KeyAtAnyDepth(attrs[i].Group, key)

\* Mutant of FilterFieldKey's closure: the groups are searched too.
fieldKeyDeep(attrs, key) == KeyAtAnyDepth(attrs, key)

\* The closure of FilterFieldKey: for _, a := range r.Attrs, true at the
\* first a with a.Key == key, false when the loop ends.
fieldKey(attrs, key) == \E i \in 1..Len(attrs) : attrs[i].Key = key

KeepMessage(msg) == [fn |-> "Message", msg |-> msg]
KeepFieldKey(key) == [fn |-> "FieldKey", key |-> key]
KeepSnippet(snippet) == [fn |-> "Snippet", snippet |-> snippet]
KeepLevel(level) == [fn |-> "Level", level |-> level]
KeepAttr(attr)   == [fn |-> "Attr", attr |-> attr]
KeepBoth(l, r)   == [fn |-> "And", l |-> l, r |-> r]

\* keep(lr), with the attribute arrays in h.
RECURSIVE KeepCall(_, _, _)
KeepCall(h, keep, lr) ==
    CASE keep.fn = "Message" ->
           IF lr.Record.Message = keep.msg THEN Yes ELSE No
      [] keep.fn = "Snippet" ->
           IF StringsContains(lr.Record.Message, keep.snippet) THEN Yes ELSE No
      [] keep.fn = "Level" ->
           IF lr.Record.Level = keep.level THEN Yes ELSE No
      [] keep.fn = "FieldKey" ->
           IF fieldKey(Elems(h, lr.Attrs), keep.key) THEN Yes ELSE No
      [] keep.fn = "Attr" -> filterAttr(Elems(h, lr.Attrs), keep.attr)
      [] keep.fn = "And" ->
           LET l == KeepCall(h, keep.l, lr) IN
           IF l.panic \/ ~l.ok THEN l ELSE KeepCall(h, keep.r, lr)

\* for _, entry := range logs { if keep(entry) { filtered = append(...) } }
\* started with filteredLogs; a panic of keep ends the loop.
RECURSIVE FilterLoop(_, _, _, _)
FilterLoop(h, logs, keep, filteredLogs) ==
    IF logs = <<>> THEN [logs |-> filteredLogs, panic |-> FALSE]
    ELSE LET k == KeepCall(h, keep, Head(logs)) IN
         IF k.panic THEN [logs |-> filteredLogs, panic |-> TRUE]
         ELSE FilterLoop(h, Tail(logs), keep,
                  IF k.ok THEN Append(filteredLogs, Head(logs))
                  ELSE filteredLogs)

\* Mutant of Filter: the kept entries are returned newest first.
DefaultFilterKeepReversed(h, o, keep) ==
    LET f == FilterLoop(h, o.logs, keep, <<>>)
        n == Len(f.logs)
    IN  [o     |-> [fixed |-> FALSE, size |-> 0,
                    logs |-> [i \in 1..n |-> f.logs[n + 1 - i]], cap |-> n],
         panic |-> f.panic]

\* Mutant of Filter: only the first kept entry is returned.
DefaultFilterKeepFirstOnly(h, o, keep) ==
    LET f == FilterLoop(h, o.logs, keep, <<>>)
        n == IF Len(f.logs) > 1 THEN 1 ELSE Len(f.logs)
    IN  [o     |-> [fixed |-> FALSE, size |-> 0,
                    logs |-> SubSeq(f.logs, 1, n), cap |-> n],
         panic |-> f.panic]

\* o.Filter(keep): the store it returns, or a panic of keep.
DefaultFilterKeep(h, o, keep) ==
    LET f == FilterLoop(h, o.logs, keep, <<>>) IN
    [o     |-> [fixed |-> FALSE, size |-> 0, logs |-> f.logs,
                cap |-> Len(f.logs)],
     panic |-> f.panic]

----------------------------------------------------------------------------
(* ObservedLogsRing *)

\* The zero LoggedRecord, the content of a cell of make([]LoggedRecord, n).
ZeroRecord ==
    [Record |-> [Time |-> 0, Level |-> 0, Message |-> ""], Attrs |-> NilSlice]

NewObservedLogsRing(k) ==
    [fixed |-> k > 0, size |-> 0, over |-> FALSE,
     logs |-> [i \in 1..k |-> ZeroRecord], cap |-> k]

\* o.len()
RingLen(o) == IF ~o.fixed \/ ~o.over THEN o.size ELSE o.cap

\* copy(dst[at:], src): dst with the first min(len(dst) - at, len(src))
\* cells from at on overwritten.
CopyAt(dst, at, src) ==
    [i \in 1..Len(dst) |->
        IF i > at /\ i - at <= Len(src) THEN src[i - at] ELSE dst[i]]

\* o.all(): the slice it returns, or a panic.  ret[cap-size%cap:] panics
\* when cap - size%cap exceeds len(ret).
RingAll(o) ==
    LET n    == RingLen(o)
        ret0 == [i \in 1..n |-> ZeroRecord]
    IN  IF ~o.fixed
        THEN [ret |-> CopyAt(ret0, 0, o.logs), panic |-> FALSE]
        ELSE LET m    == o.size % o.cap
                 ret1 == CopyAt(ret0, 0, SubSeq(o.logs, m + 1, o.cap))
             IN  IF o.cap - m > n
                 THEN [ret |-> <<>>, panic |-> TRUE]
                 ELSE [ret |-> CopyAt(ret1, o.cap - m, SubSeq(o.logs, 1, m)),
                       panic |-> FALSE]

\* o.TakeAll(): the slice it returns and the ring after the call, or a
\* panic of all() that leaves the ring as it was.
RingTakeAll(o) ==
    LET a == RingAll(o) IN
    IF a.panic THEN [ret |-> <<>>, o |-> o, panic |-> TRUE]
    ELSE [ret |-> a.ret,
          o   |-> [o EXCEPT !.size = 0, !.over = FALSE,
                            !.logs = IF ~o.fixed THEN <<>>
                                     ELSE [i \in 1..o.cap |-> ZeroRecord],
                            !.cap  = IF ~o.fixed THEN 0 ELSE o.cap],
          panic |-> FALSE]

\* ret[i].Record.Time = time.Time{}
Untimed(logs) == [i \in 1..Len(logs) |-> [logs[i] EXCEPT !.Record.Time = 0]]

DefaultAllUntimed(o) == Untimed(DefaultAll(o))

RingAllUntimed(o) ==
    LET a == RingAll(o) IN [ret |-> Untimed(a.ret), panic |-> a.panic]

\* o.Filter(keep): the ring it returns, or a panic of keep.  A fixed ring
\* is scanned from cell size%cap to the end and then from the start.
RingFilterKeep(h, o, keep) ==
    LET m == IF o.fixed THEN o.size % o.cap ELSE 0
        f == IF ~o.fixed THEN FilterLoop(h, o.logs, keep, <<>>)
             ELSE LET f1 == FilterLoop(h, SubSeq(o.logs, m + 1, o.cap),
                                       keep, <<>>)
                  IN  IF f1.panic THEN f1
                      ELSE FilterLoop(h, SubSeq(o.logs, 1, m), keep, f1.logs)
    IN  [o     |-> [fixed |-> FALSE, size |-> Len(f.logs), over |-> FALSE,
                    logs |-> f.logs, cap |-> Len(f.logs)],
         panic |-> f.panic]

\* o.Add(record, attrs)
RingAdd(o, lr) ==
    LET size1 == o.size + 1 IN
    IF ~o.fixed
    THEN [o EXCEPT !.size = size1,
                   !.logs = Append(o.logs, lr),
                   !.cap  = IF Len(o.logs) + 1 <= o.cap
                            THEN o.cap
                            ELSE GrowCap(o.cap, Len(o.logs) + 1)]
    ELSE LET idx == (size1 - 1) % o.cap IN
         [o EXCEPT !.size = size1,
                   !.logs = [o.logs EXCEPT ![idx + 1] = lr],
                   !.over = size1 > o.cap]

----------------------------------------------------------------------------
(* Callers of the store *)

Messages == {"m1", "m2"}

\* The records callers pass to Add.
Records == {[Time |-> 1, Level |-> 0, Message |-> m] : m \in Messages}

\* The attribute slices callers pass to Add: nil, or one of the arrays the
\* caller built beforehand (PoolHeap).
PoolHeap == << <<IntAttr("a", 1)>> >>

PoolSlices == {NilSlice, [arr |-> 1, len |-> 1, cap |-> 1]}

NoRet == [op |-> "New", logs |-> <<>>, n |-> 0]

Threads == 1..NThreads

\* A goroutine outside a call has no argument and has read nothing.
NoArg == [op |-> "none"]

NoLocal == NewObservedLogsDefault(0)

NoThreads ==
    /\ mu = [w |-> 0, r |-> {}]
    /\ pc = [t \in Threads |-> "idle"]
    /\ arg = [t \in Threads |-> NoArg]
    /\ taken = <<>>
    /\ local = [t \in Threads |-> NoLocal]

NoHandlers ==
    /\ handlers = <<>>
    /\ chain = <<>>
    /\ calls = <<>>
    /\ elsewhere = <<>>

\* Nobody asked Enabled yet; a LevelVar starts at slog.LevelInfo.
NoEnabled == [by |-> 0, level |-> LevelInfo, at |-> LevelInfo, ok |-> FALSE]

\* A *slog.Level: nil, or a pointer to a level.
NilLevel == [set |-> FALSE, v |-> 0]
LevelPtr(l) == [set |-> TRUE, v |-> l]

\* &Logger{Logger: slog.New(handler)}: logLevel is the zero slog.Level,
\* which is slog.LevelInfo, and errorLevel is nil.
NewLogger == [logLevel |-> LevelInfo, errorLevel |-> NilLevel]

NoLevels ==
    /\ levelVar = LevelInfo
    /\ enabled = NoEnabled
    /\ fx = NewLogger

\* No Filter call yet, and no slice in the hands of a caller.
NoSnap == [logs |-> <<>>, shared |-> FALSE, orig |-> <<>>, writes |-> 0]

\* Nobody called AttrsMap.
NoMapped == [attrs |-> <<>>, after |-> <<>>, out |-> <<>>, done |-> FALSE]

NoQuery ==
    /\ query = <<>>
    /\ versions = <<>>
    /\ snap = NoSnap
    /\ mapped = NoMapped

\* The ring New would use with opts.ObservedLogs = NewObservedLogsRing(k).
NoRing ==
    /\ ring = NewObservedLogsRing(maxLogs)
    /\ ringRet = NoRet
    /\ ringPanicked = FALSE
    /\ ringFiltered = NewObservedLogsRing(0)

InitStore ==
    /\ maxLogs \in 0..MaxK
    /\ store = NewObservedLogsDefault(maxLogs)
    /\ filtered = NewObservedLogsDefault(0)
    /\ heap = PoolHeap
    /\ panicked = FALSE
    /\ ret = NoRet
    /\ hist = [added |-> <<>>, adds |-> 0, takes |-> 0, before |-> <<>>,
               reads |-> 0]
    /\ NoThreads
    /\ NoHandlers
    /\ NoLevels
    /\ NoQuery
    /\ NoRing

Add(record, attrs) ==
    /\ ~panicked
    /\ hist.adds < MaxAdds
    /\ LET lr == LoggedRecord(record, attrs)
           r  == DefaultAdd(store, lr)
       IN  /\ store' = r.o
           /\ panicked' = r.panic
           /\ ret' = [op |-> "Add", logs |-> <<>>, n |-> 0]
           /\ hist' = [hist EXCEPT !.added = Append(@, lr), !.adds = @ + 1,
                                   !.before = DefaultAll(store)]
    /\ UNCHANGED <<maxLogs, filtered, heap>>
    /\ UNCHANGED <<threadVars, handlerVars>>
    /\ UNCHANGED <<levelVars, query, ringVars>>
    /\ UNCHANGED snap
    /\ UNCHANGED mapped
    /\ UNCHANGED elsewhere
    /\ UNCHANGED local
    /\ UNCHANGED versions
    /\ UNCHANGED fx

TakeAll ==
    /\ ~panicked
    /\ hist.takes < MaxTakes
    /\ LET r == DefaultTakeAll(store) IN
         /\ store' = r.o
         /\ ret' = [op |-> "TakeAll", logs |-> r.ret, n |-> 0]
    /\ hist' = [hist EXCEPT !.added = <<>>, !.takes = @ + 1,
                            !.before = DefaultAll(store)]
    /\ UNCHANGED <<maxLogs, filtered, heap, panicked>>
    /\ UNCHANGED <<threadVars, handlerVars>>
    /\ UNCHANGED <<levelVars, query, ringVars>>
    /\ UNCHANGED snap
    /\ UNCHANGED mapped
    /\ UNCHANGED elsewhere
    /\ UNCHANGED local
    /\ UNCHANGED versions
    /\ UNCHANGED fx

All ==
    /\ ~panicked
    /\ ret' = [op |-> "All", logs |-> DefaultAll(store), n |-> 0]
    /\ hist' = [hist EXCEPT !.before = DefaultAll(store)]
    /\ UNCHANGED <<maxLogs, store, filtered, heap, panicked>>
    /\ UNCHANGED <<threadVars, handlerVars>>
    /\ UNCHANGED <<levelVars, query, ringVars>>
    /\ UNCHANGED snap
    /\ UNCHANGED mapped
    /\ UNCHANGED elsewhere
    /\ UNCHANGED local
    /\ UNCHANGED versions
    /\ UNCHANGED fx

LenCall ==
    /\ ~panicked
    /\ ret' = [op |-> "Len", logs |-> <<>>, n |-> DefaultLen(store)]
    /\ hist' = [hist EXCEPT !.before = DefaultAll(store)]
    /\ UNCHANGED <<maxLogs, store, filtered, heap, panicked>>
    /\ UNCHANGED <<threadVars, handlerVars>>
    /\ UNCHANGED <<levelVars, query, ringVars>>
    /\ UNCHANGED snap
    /\ UNCHANGED mapped
    /\ UNCHANGED elsewhere
    /\ UNCHANGED local
    /\ UNCHANGED versions
    /\ UNCHANGED fx

Filter(msg) ==
    /\ ~panicked
    /\ filtered' = DefaultFilter(store, msg)
    /\ ret' = [op |-> "Filter", logs |-> <<>>, n |-> 0]
    /\ hist' = [hist EXCEPT !.before = DefaultAll(store)]
    /\ UNCHANGED <<maxLogs, store, heap, panicked>>
    /\ UNCHANGED <<threadVars, handlerVars>>
    /\ UNCHANGED <<levelVars, query, ringVars>>
    /\ UNCHANGED snap
    /\ UNCHANGED mapped
    /\ UNCHANGED elsewhere
    /\ UNCHANGED local
    /\ UNCHANGED versions
    /\ UNCHANGED fx

NextStore ==
    \/ \E record \in Records, attrs \in PoolSlices : Add(record, attrs)
    \/ TakeAll
    \/ All
    \/ LenCall
    \/ \E msg \in Messages : Filter(msg)

SpecStore == InitStore /\ [][NextStore]_vars

----------------------------------------------------------------------------
(* Goroutines calling Add and TakeAll on one unbounded store.  Each call is  *)
(* split where the scheduler can interleave it: before mu.Lock(), the       *)
(* critical section, and mu.Unlock().                                       *)

InitConc ==
    /\ maxLogs = 0
    /\ store = NewObservedLogsDefault(maxLogs)
    /\ filtered = NewObservedLogsDefault(0)
    /\ heap = <<>>
    /\ panicked = FALSE
    /\ ret = NoRet
    /\ hist = [added |-> <<>>, adds |-> 0, takes |-> 0, before |-> <<>>,
               reads |-> 0]
    /\ NoThreads
    /\ NoHandlers
    /\ NoLevels
    /\ NoQuery
    /\ NoRing

\* A goroutine calls Add with a record of its own; the records differ in
\* their time stamp.
AddCall(t) ==
    /\ ~panicked
    /\ pc[t] = "idle"
    /\ hist.adds < MaxAdds
    /\ arg' = [arg EXCEPT ![t] =
                  LoggedRecord([Time |-> hist.adds + 1, Level |-> 0,
                                Message |-> "m1"], NilSlice)]
    /\ pc' = [pc EXCEPT ![t] = "AddLock"]
    /\ hist' = [hist EXCEPT !.adds = @ + 1]
    /\ UNCHANGED <<maxLogs, store, filtered, heap, panicked, ret, mu, taken>>
    /\ UNCHANGED handlerVars
    /\ UNCHANGED <<levelVars, query, ringVars>>
    /\ UNCHANGED snap
    /\ UNCHANGED mapped
    /\ UNCHANGED elsewhere
    /\ UNCHANGED local
    /\ UNCHANGED versions
    /\ UNCHANGED fx

\* Mutant of Add: o.mu.Lock() is lost, the body runs unlocked.
AddLockNoMutex(t) ==
    /\ pc[t] = "AddLock"
    /\ mu' = [mu EXCEPT !.w = t]
    /\ pc' = [pc EXCEPT ![t] = "AddBody"]
    /\ UNCHANGED <<maxLogs, store, filtered, heap, panicked, ret, hist,
                   arg, taken>>
    /\ UNCHANGED handlerVars
    /\ UNCHANGED <<levelVars, query, ringVars>>
    /\ UNCHANGED snap
    /\ UNCHANGED mapped
    /\ UNCHANGED elsewhere
    /\ UNCHANGED local
    /\ UNCHANGED versions
    /\ UNCHANGED fx

\* o.mu.Lock()
AddLock(t) ==
    /\ pc[t] = "AddLock"
    /\ mu.w = 0 /\ mu.r = {}
    /\ mu' = [mu EXCEPT !.w = t]
    /\ pc' = [pc EXCEPT ![t] = "AddBody"]
    /\ UNCHANGED <<maxLogs, store, filtered, heap, panicked, ret, hist,
                   arg, taken>>
    /\ UNCHANGED handlerVars
    /\ UNCHANGED <<levelVars, query, ringVars>>
    /\ UNCHANGED snap
    /\ UNCHANGED mapped
    /\ UNCHANGED elsewhere
    /\ UNCHANGED local
    /\ UNCHANGED versions
    /\ UNCHANGED fx

\* The body reads o.size and o.logs ...
AddBody(t) ==
    /\ pc[t] = "AddBody"
    /\ local' = [local EXCEPT ![t] = store]
    /\ pc' = [pc EXCEPT ![t] = "AddStore"]
    /\ UNCHANGED <<maxLogs, store, filtered, heap, panicked, ret, hist, mu,
                   arg, taken>>
    /\ UNCHANGED handlerVars
    /\ UNCHANGED <<levelVars, query, ringVars>>
    /\ UNCHANGED snap
    /\ UNCHANGED mapped
    /\ UNCHANGED elsewhere
    /\ UNCHANGED versions
    /\ UNCHANGED fx

\* ... and writes them back with the record added.
AddStore(t) ==
    /\ pc[t] = "AddStore"
    /\ LET r == DefaultAdd(local[t], arg[t]) IN
         /\ store' = r.o
         /\ panicked' = r.panic
    /\ hist' = [hist EXCEPT !.added = Append(@, arg[t])]
    /\ local' = [local EXCEPT ![t] = NoLocal]
    /\ pc' = [pc EXCEPT ![t] = "AddUnlock"]
    /\ UNCHANGED <<maxLogs, filtered, heap, ret, mu, arg, taken>>
    /\ UNCHANGED handlerVars
    /\ UNCHANGED <<levelVars, query, ringVars>>
    /\ UNCHANGED snap
    /\ UNCHANGED mapped
    /\ UNCHANGED elsewhere
    /\ UNCHANGED versions
    /\ UNCHANGED fx

\* o.mu.Unlock()
AddUnlock(t) ==
    /\ ~panicked
    /\ pc[t] = "AddUnlock"
    /\ mu' = [mu EXCEPT !.w = 0]
    /\ pc' = [pc EXCEPT ![t] = "idle"]
    /\ arg' = [arg EXCEPT ![t] = NoArg]
    /\ UNCHANGED <<maxLogs, store, filtered, heap, panicked, ret, hist, taken>>
    /\ UNCHANGED handlerVars
    /\ UNCHANGED <<levelVars, query, ringVars>>
    /\ UNCHANGED snap
    /\ UNCHANGED mapped
    /\ UNCHANGED elsewhere
    /\ UNCHANGED local
    /\ UNCHANGED versions
    /\ UNCHANGED fx

TakeAllCall(t) ==
    /\ ~panicked
    /\ pc[t] = "idle"
    /\ hist.takes < MaxTakes
    /\ pc' = [pc EXCEPT ![t] = "TakeAllLock"]
    /\ hist' = [hist EXCEPT !.takes = @ + 1]
    /\ UNCHANGED <<maxLogs, store, filtered, heap, panicked, ret, mu, arg,
                   taken>>
    /\ UNCHANGED handlerVars
    /\ UNCHANGED <<levelVars, query, ringVars>>
    /\ UNCHANGED snap
    /\ UNCHANGED mapped
    /\ UNCHANGED elsewhere
    /\ UNCHANGED local
    /\ UNCHANGED versions
    /\ UNCHANGED fx

TakeAllLock(t) ==
    /\ pc[t] = "TakeAllLock"
    /\ mu.w = 0 /\ mu.r = {}
    /\ mu' = [mu EXCEPT !.w = t]
    /\ pc' = [pc EXCEPT ![t] = "TakeAllBody"]
    /\ UNCHANGED <<maxLogs, store, filtered, heap, panicked, ret, hist,
                   arg, taken>>
    /\ UNCHANGED handlerVars
    /\ UNCHANGED <<levelVars, query, ringVars>>
    /\ UNCHANGED snap
    /\ UNCHANGED mapped
    /\ UNCHANGED elsewhere
    /\ UNCHANGED local
    /\ UNCHANGED versions
    /\ UNCHANGED fx

TakeAllBody(t) ==
    /\ pc[t] = "TakeAllBody"
    /\ LET r == DefaultTakeAll(store) IN
         /\ store' = r.o
         /\ taken' = Append(taken, r.ret)
    /\ hist' = [hist EXCEPT !.added = <<>>]
    /\ pc' = [pc EXCEPT ![t] = "TakeAllUnlock"]
    /\ UNCHANGED <<maxLogs, filtered, heap, panicked, ret, mu, arg>>
    /\ UNCHANGED handlerVars
    /\ UNCHANGED <<levelVars, query, ringVars>>
    /\ UNCHANGED snap
    /\ UNCHANGED mapped
    /\ UNCHANGED elsewhere
    /\ UNCHANGED local
    /\ UNCHANGED versions
    /\ UNCHANGED fx

TakeAllUnlock(t) ==
    /\ pc[t] = "TakeAllUnlock"
    /\ mu' = [mu EXCEPT !.w = 0]
    /\ pc' = [pc EXCEPT ![t] = "idle"]
    /\ UNCHANGED <<maxLogs, store, filtered, heap, panicked, ret, hist,
                   arg, taken>>
    /\ UNCHANGED handlerVars
    /\ UNCHANGED <<levelVars, query, ringVars>>
    /\ UNCHANGED snap
    /\ UNCHANGED mapped
    /\ UNCHANGED elsewhere
    /\ UNCHANGED local
    /\ UNCHANGED versions
    /\ UNCHANGED fx

NextConc ==
    \E t \in Threads :
        \/ AddCall(t)
        \/ AddLock(t)
        \/ AddBody(t)
        \/ AddStore(t)
        \/ AddUnlock(t)
        \/ TakeAllCall(t)
        \/ TakeAllLock(t)
        \/ TakeAllBody(t)
        \/ TakeAllUnlock(t)

SpecConc == InitConc /\ [][NextConc]_vars

\* Goroutines that only add.  calls keeps which goroutine made which call.
AddCallBy(t) ==
    /\ ~panicked
    /\ pc[t] = "idle"
    /\ hist.adds < MaxAdds
    /\ arg' = [arg EXCEPT ![t] =
                  LoggedRecord([Time |-> hist.adds + 1, Level |-> 0,
                                Message |-> "m1"], NilSlice)]
    /\ pc' = [pc EXCEPT ![t] = "AddLock"]
    /\ hist' = [hist EXCEPT !.adds = @ + 1]
    /\ calls' = Append(calls, [by |-> t])
    /\ UNCHANGED <<maxLogs, store, filtered, heap, panicked, ret, mu, taken>>
    /\ UNCHANGED <<handlers, chain, elsewhere, local>>
    /\ UNCHANGED <<levelVars, query, ringVars, snap, mapped>>
    /\ UNCHANGED versions
    /\ UNCHANGED fx

NextAdds ==
    \E t \in Threads :
        \/ AddCallBy(t)
        \/ AddLock(t)
        \/ AddBody(t)
        \/ AddStore(t)
        \/ AddUnlock(t)

SpecAdds == InitConc /\ [][NextAdds]_vars

----------------------------------------------------------------------------
(* Slice operations of the handler *)

\* s[:len(s):len(s)]
Clip(s) == [s EXCEPT !.cap = s.len]

\* append(s, xs...): the heap and the slice header after the call.  With room
\* in the backing array the elements are written in place, behind s.len;
\* otherwise the elements move to a new array.  Appending nothing returns s.
AppendAttrs(h, s, xs) ==
    LET n == Len(xs) IN
    IF n = 0 THEN [h |-> h, s |-> s]
    ELSE IF s.len + n <= s.cap
    THEN [h |-> [h EXCEPT ![s.arr] =
                    [i \in 1..Len(@) |->
                        IF i > s.len /\ i <= s.len + n THEN xs[i - s.len]
                        ELSE @[i]]],
          s |-> [s EXCEPT !.len = s.len + n]]
    ELSE LET c == GrowCap(s.cap, s.len + n) IN
         [h |-> Append(h, Elems(h, s) \o xs
                          \o [i \in 1..(c - s.len - n) |-> ZeroAttr]),
          s |-> [arr |-> Len(h) + 1, len |-> s.len + n, cap |-> c]]

\* Value.isEmptyGroup
IsEmptyGroup(a) == a.Kind = "Group" /\ Len(a.Group) = 0

\* slog.GroupValue(as...): the attributes of the group; empty groups among
\* them are removed.
GroupValue(as) == SelectSeq(as, LAMBDA a : ~IsEmptyGroup(a))

----------------------------------------------------------------------------
(* contextObserver *)

\* &HandlerOptions{}
ZeroOptions == [Level |-> NilLeveler]

\* The store New makes (or takes from opts.ObservedLogs) and returns; a
\* handler's logs field points to a store.
TheStore == "ol"

\* &contextObserver{opts: *opts, logs: ol} for opts = nil
NewHandler ==
    [opts |-> ZeroOptions, attrs |-> NilSlice, groups |-> NilSlice,
     logs |-> TheStore]

\* Mutant of Enabled: the minimum is slog.LevelInfo whatever opts.Level is.
HandlerEnabledInfoOnly(c, lvVar, level) ==
    LET minLevel == LevelInfo IN
    level >= minLevel

\* c.Enabled(ctx, level) when the LevelVar holds lvVar.
HandlerEnabled(c, lvVar, level) ==
    LET minLevel == IF c.opts.Level.kind # "nil"
                    THEN LevelerLevel(c.opts.Level, lvVar)
                    ELSE LevelInfo
    IN  level >= minLevel

\* The heap after the call and the handler it returns.
\* Mutant of WithAttrs: the new attributes go in front of the receiver's.
HandlerWithAttrsInFront(h, c, attrs) ==
    LET co == [opts |-> c.opts, attrs |-> Clip(c.attrs),
               groups |-> Clip(c.groups), logs |-> c.logs] IN
    IF c.groups.len = 0
    THEN LET r == AppendAttrs(h, NilSlice, attrs \o Elems(h, co.attrs)) IN
         [h |-> r.h, c |-> [co EXCEPT !.attrs = r.s]]
    ELSE LET idx == co.groups.len IN
         [h |-> [h EXCEPT ![co.groups.arr][idx].Group = GroupValue(@ \o attrs)],
          c |-> co]

\* The heap after the call and the handler it returns.  With an open group
\* co.groups has the receiver's backing array, and the assignment to
\* co.groups[currentGroupIdx].Value writes into it.
HandlerWithAttrs(h, c, attrs) ==
    LET co == [opts |-> c.opts, attrs |-> Clip(c.attrs),
               groups |-> Clip(c.groups), logs |-> c.logs] IN
    IF c.groups.len = 0
    THEN LET r == AppendAttrs(h, co.attrs, attrs) IN
         [h |-> r.h, c |-> [co EXCEPT !.attrs = r.s]]
    ELSE LET idx == co.groups.len IN
         [h |-> [h EXCEPT ![co.groups.arr][idx].Group = GroupValue(@ \o attrs)],
          c |-> co]

\* Mutant of WithGroup: the handler returned writes to a store of its own,
\* logs: NewObservedLogsDefault(0).
HandlerWithGroupOwnStore(h, c, name) ==
    LET r == AppendAttrs(h, Clip(c.groups), <<GroupAttr(name, <<>>)>>) IN
    [h |-> r.h,
     c |-> [opts |-> c.opts, attrs |-> Clip(c.attrs), groups |-> r.s,
            logs |-> "own"]]

\* Mutant of WithGroup: the group pushed holds the receiver's attributes,
\* slog.Group(name, c.attrs...).
HandlerWithGroupOfAttrs(h, c, name) ==
    LET r == AppendAttrs(h, Clip(c.groups),
                         <<GroupAttr(name, Elems(h, c.attrs))>>) IN
    [h |-> r.h,
     c |-> [opts |-> c.opts, attrs |-> Clip(c.attrs), groups |-> r.s,
            logs |-> c.logs]]

\* The heap after the call and the handler it returns: the groups of the
\* receiver and the empty group slog.Group(name), in a new backing array.
HandlerWithGroup(h, c, name) ==
    LET r == AppendAttrs(h, Clip(c.groups), <<GroupAttr(name, <<>>)>>) IN
    [h |-> r.h,
     c |-> [opts |-> c.opts, attrs |-> Clip(c.attrs), groups |-> r.s,
            logs |-> c.logs]]

\* for i := len(c.groups) - 1; i >= 1; i--: group i is appended to the
\* content of group i-1, in the array c.groups points to.
RECURSIVE FoldGroups(_, _, _)
FoldGroups(h, g, i) ==
    IF i < 2 THEN h
    ELSE FoldGroups([h EXCEPT ![g][i - 1].Group = GroupValue(@ \o <<h[g][i]>>)],
                    g, i - 1)

\* Mutant of Handle: without an open group the record's attributes are
\* appended to the handler's, append(attrs, recordAttrs...).
HandlerHandleAttrsFirst(h, c, recordAttrs) ==
    LET attrs == Clip(c.attrs) IN
    IF c.groups.len > 0
    THEN LET g  == c.groups.arr
             n  == c.groups.len
             h1 == IF Len(recordAttrs) > 0
                   THEN [h EXCEPT ![g][n].Group = GroupValue(@ \o recordAttrs)]
                   ELSE h
             h2 == FoldGroups(h1, g, n)
             r  == AppendAttrs(h2, attrs, <<h2[g][1]>>)
         IN  [h |-> r.h, attrs |-> r.s]
    ELSE LET r == AppendAttrs(h, attrs, recordAttrs) IN
         [h |-> r.h, attrs |-> r.s]

\* The heap after Handle and the attrs slice it passes to c.logs.Add.
\* recordAttrs is the slice Handle makes of the record's own attributes.
HandlerHandle(h, c, recordAttrs) ==
    LET attrs == Clip(c.attrs) IN
    IF c.groups.len > 0
    THEN LET g  == c.groups.arr
             n  == c.groups.len
             h1 == IF Len(recordAttrs) > 0
                   THEN [h EXCEPT ![g][n].Group = GroupValue(@ \o recordAttrs)]
                   ELSE h
             h2 == FoldGroups(h1, g, n)
             r  == AppendAttrs(h2, attrs, <<h2[g][1]>>)
         IN  [h |-> r.h, attrs |-> r.s]
    ELSE LET n  == Len(recordAttrs)
             h1 == IF n = 0 THEN h ELSE Append(h, recordAttrs)
             rs == IF n = 0 THEN NilSlice
                   ELSE [arr |-> Len(h) + 1, len |-> n, cap |-> n]
             r  == AppendAttrs(h1, rs, Elems(h, attrs))
         IN  [h |-> r.h, attrs |-> r.s]

----------------------------------------------------------------------------
(* Callers of the handler: New(nil), then WithAttrs, WithGroup and Handle on *)
(* any handler obtained so far, in any order.                               *)

\* The attribute lists passed to WithAttrs.
AttrLists == {<<IntAttr("a", 1)>>, <<IntAttr("b", 2)>>}

\* The name passed to WithGroup: "foo" opens the outermost group, "bar" the
\* groups inside it.
GroupName(depth) == IF depth = 0 THEN "foo" ELSE "bar"

\* The attributes of the records passed to Handle.
RecordAttrLists == {<<>>, <<IntAttr("j", 4)>>}

InitHandler ==
    /\ maxLogs = 0
    /\ store = NewObservedLogsDefault(maxLogs)
    /\ filtered = NewObservedLogsDefault(0)
    /\ heap = <<>>
    /\ panicked = FALSE
    /\ ret = NoRet
    /\ hist = [added |-> <<>>, adds |-> 0, takes |-> 0, before |-> <<>>,
               reads |-> 0]
    /\ NoThreads
    /\ handlers = <<NewHandler>>
    /\ chain = <<[parent |-> 0, with |-> <<>>, flat |-> <<>>, groups |-> <<>>]>>
    /\ calls = <<>>
    /\ elsewhere = <<>>
    /\ NoLevels
    /\ NoQuery
    /\ NoRing

WithAttrs(c, attrs) ==
    /\ Len(handlers) < MaxHandlers
    /\ LET r == HandlerWithAttrs(heap, handlers[c], attrs) IN
         /\ heap' = r.h
         /\ handlers' = Append(handlers, r.c)
    /\ chain' = Append(chain,
         [parent |-> c, with |-> attrs,
          flat   |-> IF chain[c].groups = <<>> THEN chain[c].flat \o attrs
                     ELSE chain[c].flat,
          groups |-> IF chain[c].groups = <<>> THEN <<>>
                     ELSE [chain[c].groups EXCEPT
                              ![Len(chain[c].groups)].attrs = @ \o attrs]])
    /\ ret' = [op |-> "WithAttrs", logs |-> <<>>, n |-> 0]
    /\ UNCHANGED <<maxLogs, store, filtered, panicked, hist, calls>>
    /\ UNCHANGED threadVars
    /\ UNCHANGED <<levelVars, query, ringVars>>
    /\ UNCHANGED snap
    /\ UNCHANGED mapped
    /\ UNCHANGED elsewhere
    /\ UNCHANGED local
    /\ UNCHANGED versions
    /\ UNCHANGED fx

WithGroup(c, name) ==
    /\ Len(handlers) < MaxHandlers
    /\ LET r == HandlerWithGroup(heap, handlers[c], name) IN
         /\ heap' = r.h
         /\ handlers' = Append(handlers, r.c)
    /\ chain' = Append(chain,
         [parent |-> c, with |-> <<>>, flat |-> chain[c].flat,
          groups |-> Append(chain[c].groups, [name |-> name, attrs |-> <<>>])])
    /\ ret' = [op |-> "WithGroup", logs |-> <<>>, n |-> 0]
    /\ UNCHANGED <<maxLogs, store, filtered, panicked, hist, calls>>
    /\ UNCHANGED threadVars
    /\ UNCHANGED <<levelVars, query, ringVars>>
    /\ UNCHANGED snap
    /\ UNCHANGED mapped
    /\ UNCHANGED elsewhere
    /\ UNCHANGED local
    /\ UNCHANGED versions
    /\ UNCHANGED fx

\* rc carries the record's time, level and message and no attributes.
\* c.logs.Add goes to the store New returned when c.logs points to it.
Handle(c, record, recordAttrs) ==
    /\ ~panicked
    /\ LET r   == HandlerHandle(heap, handlers[c], recordAttrs)
           lr  == LoggedRecord(record, r.attrs)
           add == DefaultAdd(store, lr)
       IN  /\ heap' = r.h
           /\ IF handlers[c].logs = TheStore
              THEN /\ store' = add.o
                   /\ panicked' = add.panic
                   /\ hist' = [hist EXCEPT !.added = Append(@, lr),
                                           !.adds = @ + 1]
                   /\ UNCHANGED elsewhere
              ELSE /\ elsewhere' = Append(elsewhere, lr)
                   /\ UNCHANGED <<store, panicked, hist>>
    /\ calls' = Append(calls, [by |-> c, rec |-> recordAttrs,
                               record |-> record])
    /\ ret' = [op |-> "Handle", logs |-> <<>>, n |-> 0]
    /\ UNCHANGED <<maxLogs, filtered, handlers, chain>>
    /\ UNCHANGED threadVars
    /\ UNCHANGED <<levelVars, query, ringVars>>
    /\ UNCHANGED snap
    /\ UNCHANGED mapped
    /\ UNCHANGED local
    /\ UNCHANGED versions
    /\ UNCHANGED fx

HelloRecord == [Time |-> 1, Level |-> 0, Message |-> "hello"]

NextHandler ==
    \/ \E c \in 1..Len(handlers), attrs \in AttrLists : WithAttrs(c, attrs)
    \/ \E c \in 1..Len(handlers) :
          WithGroup(c, GroupName(handlers[c].groups.len))
    \/ \E c \in 1..Len(handlers), recordAttrs \in RecordAttrLists :
          Len(calls) < MaxHandled /\ Handle(c, HelloRecord, recordAttrs)

SpecHandler == InitHandler /\ [][NextHandler]_vars

----------------------------------------------------------------------------
(* Callers that set a minimum level: New(&HandlerOptions{Level: ...}), then *)
(* Enabled, Handle, WithAttrs and WithGroup on the handlers obtained,       *)
(* and Set on the LevelVar when the options hold one.                       *)

Levels == {LevelDebug, LevelInfo, LevelWarn, LevelError}

\* The levels given to LevelVar.Set.
SetLevels == {LevelDebug, LevelWarn}

\* The levels of the records passed to Handle: logger.Info, logger.Debug.
RecordLevels == {LevelInfo, LevelDebug}

\* The values of HandlerOptions.Level: nil, slog.LevelWarn, a *slog.LevelVar.
Levelers == {NilLeveler, ConstLeveler(LevelWarn), VarLeveler}

InitLevel ==
    /\ maxLogs = 0
    /\ store = NewObservedLogsDefault(maxLogs)
    /\ filtered = NewObservedLogsDefault(0)
    /\ heap = <<>>
    /\ panicked = FALSE
    /\ ret = NoRet
    /\ hist = [added |-> <<>>, adds |-> 0, takes |-> 0, before |-> <<>>,
               reads |-> 0]
    /\ NoThreads
    /\ \E lv \in Levelers :
          handlers = <<[NewHandler EXCEPT !.opts = [Level |-> lv]]>>
    /\ chain = <<[parent |-> 0, with |-> <<>>, flat |-> <<>>, groups |-> <<>>]>>
    /\ calls = <<>>
    /\ elsewhere = <<>>
    /\ NoLevels
    /\ NoQuery
    /\ NoRing

\* (*slog.LevelVar).Set(l)
SetLevel(l) ==
    /\ handlers[1].opts.Level.kind = "LevelVar"
    /\ levelVar' = l
    /\ ret' = [op |-> "Set", logs |-> <<>>, n |-> 0]
    /\ UNCHANGED <<maxLogs, store, filtered, heap, panicked, hist, enabled>>
    /\ UNCHANGED <<threadVars, handlerVars, query, ringVars>>
    /\ UNCHANGED snap
    /\ UNCHANGED mapped
    /\ UNCHANGED elsewhere
    /\ UNCHANGED local
    /\ UNCHANGED versions
    /\ UNCHANGED fx

Enabled(c, level) ==
    /\ enabled' = [by |-> c, level |-> level, at |-> levelVar,
                   ok |-> HandlerEnabled(handlers[c], levelVar, level)]
    /\ ret' = [op |-> "Enabled", logs |-> <<>>, n |-> 0]
    /\ UNCHANGED <<maxLogs, store, filtered, heap, panicked, hist, levelVar>>
    /\ UNCHANGED <<threadVars, handlerVars, query, ringVars>>
    /\ UNCHANGED snap
    /\ UNCHANGED mapped
    /\ UNCHANGED elsewhere
    /\ UNCHANGED local
    /\ UNCHANGED versions
    /\ UNCHANGED fx

\* slog.Record{Level: level, Message: "hello"}
LevelRecord(level) == [Time |-> 1, Level |-> level, Message |-> "hello"]

NextLevel ==
    \/ \E l \in SetLevels : SetLevel(l)
    \/ \E c \in 1..Len(handlers), l \in Levels : Enabled(c, l)
    \/ \E c \in 1..Len(handlers) :
          Len(handlers) <= MaxDerived /\ WithAttrs(c, <<IntAttr("a", 1)>>)
    \/ \E c \in 1..Len(handlers) :
          Len(handlers) <= MaxDerived /\ WithGroup(c, "foo")
    \/ \E c \in 1..Len(handlers), l \in RecordLevels :
          Len(calls) < MaxHandled /\ Handle(c, LevelRecord(l), <<>>)

SpecLevel == InitLevel /\ [][NextLevel]_vars

----------------------------------------------------------------------------
(* Callers that filter: records are added to an unbounded store and the    *)
(* store is queried with FilterMessage, FilterAttr, these two chained, and *)
(* Filter with a predicate of the caller.                                  *)

\* The attribute arrays of the records: a=1 and ns{a=2}; g{ns{a=2}};
\* slice=["a"]; slice=["b"].
FilterHeap ==
    << <<IntAttr("a", 1), GroupAttr("ns", <<IntAttr("a", 2)>>)>>,
       <<GroupAttr("g", <<GroupAttr("ns", <<IntAttr("a", 2)>>)>>)>>,
       <<SliceAttr("slice", 1)>>,
       <<SliceAttr("slice", 2)>> >>

\* The slice over the whole of array i.
FilterSlice(i) ==
    [arr |-> i, len |-> Len(FilterHeap[i]), cap |-> Len(FilterHeap[i])]

\* The records passed to Add, with their attributes.
FilterRecords ==
    {LoggedRecord([Time |-> 1, Level |-> LevelInfo, Message |-> "m1"],
                  FilterSlice(i)) : i \in 1..Len(FilterHeap)}
    \cup {LoggedRecord([Time |-> 1, Level |-> LevelInfo, Message |-> "m2"],
                       FilterSlice(1))}

\* The attributes looked for with FilterAttr.
Targets ==
    {IntAttr("a", 2), GroupAttr("ns", <<IntAttr("a", 2)>>),
     SliceAttr("slice", 1)}

\* The predicates of FilterMessage and FilterAttr calls.
Keeps == {KeepMessage("m1")} \cup {KeepAttr(a) : a \in Targets}

\* The keys looked for with FilterFieldKey: "a" and "ns" are top-level keys
\* of some records and nested keys of others, "zz" is no key at all.
FieldKeys == {"a", "ns", "zz"}

\* The predicates of the first call of a chain.
FirstKeeps == {KeepMessage("m1"), KeepAttr(SliceAttr("slice", 1))}

InitFilter ==
    /\ maxLogs = 0
    /\ store = NewObservedLogsDefault(maxLogs)
    /\ filtered = NewObservedLogsDefault(0)
    /\ heap = FilterHeap
    /\ panicked = FALSE
    /\ ret = NoRet
    /\ hist = [added |-> <<>>, adds |-> 0, takes |-> 0, before |-> <<>>,
               reads |-> 0]
    /\ NoThreads
    /\ NoHandlers
    /\ NoLevels
    /\ NoQuery
    /\ NoRing

\* store.Filter(keep), also reached as FilterMessage and FilterAttr.
FilterKeep(keep) ==
    /\ ~panicked
    /\ LET f == DefaultFilterKeep(heap, store, keep) IN
         /\ panicked' = f.panic
         /\ filtered' = IF f.panic THEN filtered ELSE f.o
    /\ query' = <<keep>>
    /\ ret' = [op |-> "Filter", logs |-> <<>>, n |-> 0]
    /\ UNCHANGED <<maxLogs, store, heap, hist>>
    /\ UNCHANGED <<threadVars, handlerVars, levelVars, ringVars>>
    /\ UNCHANGED snap
    /\ UNCHANGED mapped
    /\ UNCHANGED elsewhere
    /\ UNCHANGED local
    /\ UNCHANGED versions
    /\ UNCHANGED fx

\* store.Filter(first).Filter(second)
FilterChain(first, second) ==
    /\ ~panicked
    /\ LET f == DefaultFilterKeep(heap, store, first)
           g == DefaultFilterKeep(heap, f.o, second)
       IN  /\ panicked' = (f.panic \/ g.panic)
           /\ filtered' = IF f.panic \/ g.panic THEN filtered ELSE g.o
    /\ query' = <<first, second>>
    /\ ret' = [op |-> "Filter", logs |-> <<>>, n |-> 0]
    /\ UNCHANGED <<maxLogs, store, heap, hist>>
    /\ UNCHANGED <<threadVars, handlerVars, levelVars, ringVars>>
    /\ UNCHANGED snap
    /\ UNCHANGED mapped
    /\ UNCHANGED elsewhere
    /\ UNCHANGED local
    /\ UNCHANGED versions
    /\ UNCHANGED fx

NextFilter ==
    \/ \E lr \in FilterRecords :
          Len(store.logs) < MaxStored /\ Add(lr.Record, lr.Attrs)
    \/ \E keep \in Keeps : FilterKeep(keep)
    \/ \E key \in FieldKeys : FilterKeep(KeepFieldKey(key))
    \/ \E l \in FirstKeeps, r \in Keeps : FilterKeep(KeepBoth(l, r))
    \/ \E first \in FirstKeeps, second \in Keeps :
          FilterChain(first, second)

SpecFilter == InitFilter /\ [][NextFilter]_vars

----------------------------------------------------------------------------
(* Callers that give an ObservedLogsDefault and an ObservedLogsRing, made   *)
(* with the same maxLogs, the same calls.                                   *)

InitRing ==
    /\ maxLogs \in 0..MaxK
    /\ store = NewObservedLogsDefault(maxLogs)
    /\ filtered = NewObservedLogsDefault(0)
    /\ heap = PoolHeap
    /\ panicked = FALSE
    /\ ret = NoRet
    /\ hist = [added |-> <<>>, adds |-> 0, takes |-> 0, before |-> <<>>,
               reads |-> 0]
    /\ NoThreads
    /\ NoHandlers
    /\ NoLevels
    /\ NoQuery
    /\ NoRing

\* What a call returned that returns nothing, or panicked.
Returned(op) == [op |-> op, logs |-> <<>>, n |-> 0]

BothAdd(record, attrs) ==
    /\ ~panicked /\ ~ringPanicked
    /\ hist.adds < MaxAdds
    /\ LET lr == LoggedRecord(record, attrs)
           r  == DefaultAdd(store, lr)
       IN  /\ store' = r.o
           /\ panicked' = r.panic
           /\ ring' = RingAdd(ring, lr)
           /\ hist' = [hist EXCEPT !.added = Append(@, lr), !.adds = @ + 1]
    /\ ret' = Returned("Add")
    /\ ringRet' = Returned("Add")
    /\ UNCHANGED <<maxLogs, filtered, heap, ringPanicked, query>>
    /\ UNCHANGED ringFiltered
    /\ UNCHANGED <<threadVars, handlerVars, levelVars>>
    /\ UNCHANGED snap
    /\ UNCHANGED mapped
    /\ UNCHANGED elsewhere
    /\ UNCHANGED local
    /\ UNCHANGED versions
    /\ UNCHANGED fx

BothLen ==
    /\ ~panicked /\ ~ringPanicked
    /\ ret' = [op |-> "Len", logs |-> <<>>, n |-> DefaultLen(store)]
    /\ ringRet' = [op |-> "Len", logs |-> <<>>, n |-> RingLen(ring)]
    /\ UNCHANGED <<maxLogs, store, filtered, heap, panicked, hist, query>>
    /\ UNCHANGED <<ring, ringPanicked, ringFiltered>>
    /\ UNCHANGED <<threadVars, handlerVars, levelVars>>
    /\ UNCHANGED snap
    /\ UNCHANGED mapped
    /\ UNCHANGED elsewhere
    /\ UNCHANGED local
    /\ UNCHANGED versions
    /\ UNCHANGED fx

BothAll ==
    /\ ~panicked /\ ~ringPanicked
    /\ ret' = [op |-> "All", logs |-> DefaultAll(store), n |-> 0]
    /\ LET a == RingAll(ring) IN
         /\ ringRet' = [op |-> "All", logs |-> a.ret, n |-> 0]
         /\ ringPanicked' = a.panic
    /\ UNCHANGED <<maxLogs, store, filtered, heap, panicked, hist, query>>
    /\ UNCHANGED <<ring, ringFiltered>>
    /\ UNCHANGED <<threadVars, handlerVars, levelVars>>
    /\ UNCHANGED snap
    /\ UNCHANGED mapped
    /\ UNCHANGED elsewhere
    /\ UNCHANGED local
    /\ UNCHANGED versions
    /\ UNCHANGED fx

BothAllUntimed ==
    /\ ~panicked /\ ~ringPanicked
    /\ ret' = [op |-> "AllUntimed", logs |-> DefaultAllUntimed(store),
               n |-> 0]
    /\ LET a == RingAllUntimed(ring) IN
         /\ ringRet' = [op |-> "AllUntimed", logs |-> a.ret, n |-> 0]
         /\ ringPanicked' = a.panic
    /\ UNCHANGED <<maxLogs, store, filtered, heap, panicked, hist, query>>
    /\ UNCHANGED <<ring, ringFiltered>>
    /\ UNCHANGED <<threadVars, handlerVars, levelVars>>
    /\ UNCHANGED snap
    /\ UNCHANGED mapped
    /\ UNCHANGED elsewhere
    /\ UNCHANGED local
    /\ UNCHANGED versions
    /\ UNCHANGED fx

BothTakeAll ==
    /\ ~panicked /\ ~ringPanicked
    /\ hist.takes < MaxTakes
    /\ LET r == DefaultTakeAll(store) IN
         /\ store' = r.o
         /\ ret' = [op |-> "TakeAll", logs |-> r.ret, n |-> 0]
    /\ LET r == RingTakeAll(ring) IN
         /\ ring' = r.o
         /\ ringRet' = [op |-> "TakeAll", logs |-> r.ret, n |-> 0]
         /\ ringPanicked' = r.panic
    /\ hist' = [hist EXCEPT !.added = <<>>, !.takes = @ + 1]
    /\ UNCHANGED <<maxLogs, filtered, heap, panicked, query>>
    /\ UNCHANGED ringFiltered
    /\ UNCHANGED <<threadVars, handlerVars, levelVars>>
    /\ UNCHANGED snap
    /\ UNCHANGED mapped
    /\ UNCHANGED elsewhere
    /\ UNCHANGED local
    /\ UNCHANGED versions
    /\ UNCHANGED fx

\* Filter(keep) on both; the stores returned are observed with All and Len.
BothFilter(keep) ==
    /\ ~panicked /\ ~ringPanicked
    /\ LET f == DefaultFilterKeep(heap, store, keep) IN
         /\ panicked' = f.panic
         /\ filtered' = IF f.panic THEN filtered ELSE f.o
         /\ ret' = IF f.panic THEN Returned("Filter")
                   ELSE [op |-> "Filter", logs |-> DefaultAll(f.o),
                         n |-> DefaultLen(f.o)]
    /\ LET f == RingFilterKeep(heap, ring, keep) IN
         /\ ringPanicked' = f.panic
         /\ ringRet' = IF f.panic THEN Returned("Filter")
                       ELSE [op |-> "Filter", logs |-> RingAll(f.o).ret,
                             n |-> RingLen(f.o)]
    /\ query' = <<keep>>
    /\ UNCHANGED <<maxLogs, store, heap, hist, ring, ringFiltered>>
    /\ UNCHANGED <<threadVars, handlerVars, levelVars>>
    /\ UNCHANGED snap
    /\ UNCHANGED mapped
    /\ UNCHANGED elsewhere
    /\ UNCHANGED local
    /\ UNCHANGED versions
    /\ UNCHANGED fx

NextRing ==
    \/ \E record \in Records, attrs \in PoolSlices : BothAdd(record, attrs)
    \/ BothLen
    \/ BothAll
    \/ BothAllUntimed
    \/ BothTakeAll
    \/ \E msg \in Messages : BothFilter(KeepMessage(msg))

SpecRing == InitRing /\ [][NextRing]_vars

----------------------------------------------------------------------------
(* A caller that keeps the slice All returned, writes into it, and goes on  *)
(* calling the store.  snap.shared tells whether the slice has the backing  *)
(* array of o.logs, so that a write on one side shows on the other.         *)

\* Mutant of All: ret := o.logs, the slice with the store's backing array.
DefaultAllSliceAlias(o) == [logs |-> o.logs, shared |-> TRUE]

\* ret := make([]LoggedRecord, len(o.logs)); copy(ret, o.logs): the
\* elements of o.logs in a backing array of their own.
DefaultAllSlice(o) == [logs |-> DefaultAll(o), shared |-> FALSE]

\* Mutant of AllUntimed: the times are reset in o.logs, before o.All().
DefaultAllUntimedInStore(o) ==
    LET o1 == [o EXCEPT !.logs = Untimed(@)]
        r  == DefaultAllSlice(o1)
    IN  [ret |-> r.logs, o |-> o1]

\* ret := o.All(); ret[i].Record.Time = time.Time{} for every i.  The
\* writes reach o.logs when ret has its backing array.
DefaultAllUntimedSlice(o) ==
    LET r == DefaultAllSlice(o) IN
    [ret |-> Untimed(r.logs),
     o   |-> IF r.shared THEN [o EXCEPT !.logs = Untimed(@)] ELSE o]

\* The caller's slice after o.Add took the store from o to o2: the shift of
\* a full store is done in the backing array of o.logs, append writes
\* behind the caller's length or moves o.logs to a new array.
SliceAfterAdd(sn, o, o2) ==
    IF ~sn.shared THEN sn
    ELSE IF o.fixed /\ o.size + 1 > o.cap
    THEN [sn EXCEPT !.logs = SubSeq(o2.logs, 1, Len(sn.logs))]
    ELSE IF o2.cap # o.cap THEN [sn EXCEPT !.shared = FALSE]
    ELSE sn

\* The record a caller writes into the slice it got.
OtherRecord ==
    LoggedRecord([Time |-> 9, Level |-> LevelWarn, Message |-> "m2"], NilSlice)

InitSnap ==
    /\ maxLogs \in 0..MaxK
    /\ store = NewObservedLogsDefault(maxLogs)
    /\ filtered = NewObservedLogsDefault(0)
    /\ heap = <<>>
    /\ panicked = FALSE
    /\ ret = NoRet
    /\ hist = [added |-> <<>>, adds |-> 0, takes |-> 0, before |-> <<>>,
               reads |-> 0]
    /\ NoThreads
    /\ handlers = <<NewHandler>>
    /\ chain = <<>>
    /\ calls = <<>>
    /\ elsewhere = <<>>
    /\ NoLevels
    /\ NoQuery
    /\ NoRing

\* ret := logs.All(), kept by the caller.
SnapAll ==
    /\ ~panicked
    /\ LET r == DefaultAllSlice(store) IN
         /\ snap' = [logs |-> r.logs, shared |-> r.shared, orig |-> r.logs,
                     writes |-> 0]
         /\ ret' = [op |-> "All", logs |-> r.logs, n |-> 0]
    /\ UNCHANGED <<maxLogs, store, filtered, heap, panicked, hist>>
    /\ UNCHANGED <<threadVars, handlerVars, levelVars, query, ringVars>>
    /\ UNCHANGED mapped
    /\ UNCHANGED elsewhere
    /\ UNCHANGED local
    /\ UNCHANGED versions
    /\ UNCHANGED fx

\* ret[i] = OtherRecord
SnapSet(i) ==
    /\ ~panicked
    /\ snap.writes < MaxWrites
    /\ snap.logs[i] # OtherRecord
    /\ snap' = [snap EXCEPT !.logs[i] = OtherRecord, !.writes = @ + 1]
    /\ store' = IF snap.shared THEN [store EXCEPT !.logs[i] = OtherRecord]
                ELSE store
    /\ ret' = [op |-> "Set", logs |-> <<>>, n |-> i]
    /\ UNCHANGED <<maxLogs, filtered, heap, panicked, hist>>
    /\ UNCHANGED <<threadVars, handlerVars, levelVars, query, ringVars>>
    /\ UNCHANGED mapped
    /\ UNCHANGED elsewhere
    /\ UNCHANGED local
    /\ UNCHANGED versions
    /\ UNCHANGED fx

\* ret[i], ret[j] = ret[j], ret[i]
SnapSwap(i, j) ==
    /\ ~panicked
    /\ snap.writes < MaxWrites
    /\ snap.logs[i] # snap.logs[j]
    /\ snap' = [snap EXCEPT !.logs[i] = snap.logs[j], !.logs[j] = snap.logs[i],
                          !.writes = @ + 1]
    /\ store' = IF snap.shared
                THEN [store EXCEPT !.logs[i] = snap.logs[j],
                                   !.logs[j] = snap.logs[i]]
                ELSE store
    /\ ret' = [op |-> "Swap", logs |-> <<>>, n |-> i]
    /\ UNCHANGED <<maxLogs, filtered, heap, panicked, hist>>
    /\ UNCHANGED <<threadVars, handlerVars, levelVars, query, ringVars>>
    /\ UNCHANGED mapped
    /\ UNCHANGED elsewhere
    /\ UNCHANGED local
    /\ UNCHANGED versions
    /\ UNCHANGED fx

\* logs.Add(record, nil); the records differ in their time.  hist counts
\* the calls only.
SnapAdd ==
    /\ ~panicked
    /\ hist.adds < MaxAdds
    /\ LET lr == LoggedRecord([Time |-> hist.adds + 1, Level |-> LevelInfo,
                               Message |-> "m1"], NilSlice)
           r  == DefaultAdd(store, lr)
       IN  /\ store' = r.o
           /\ panicked' = r.panic
           /\ snap' = SliceAfterAdd(snap, store, r.o)
           /\ hist' = [hist EXCEPT !.adds = @ + 1]
    /\ ret' = [op |-> "Add", logs |-> <<>>, n |-> 0]
    /\ UNCHANGED <<maxLogs, filtered, heap>>
    /\ UNCHANGED <<threadVars, handlerVars, levelVars, query, ringVars>>
    /\ UNCHANGED mapped
    /\ UNCHANGED elsewhere
    /\ UNCHANGED local
    /\ UNCHANGED versions
    /\ UNCHANGED fx

\* Handle on the handler New returned, for a record without attributes.
SnapHandle ==
    /\ ~panicked
    /\ hist.adds < MaxAdds
    /\ LET r   == HandlerHandle(heap, handlers[1], <<>>)
           lr  == LoggedRecord([Time |-> hist.adds + 1, Level |-> LevelInfo,
                                Message |-> "m1"], r.attrs)
           add == DefaultAdd(store, lr)
       IN  /\ heap' = r.h
           /\ store' = add.o
           /\ panicked' = add.panic
           /\ snap' = SliceAfterAdd(snap, store, add.o)
           /\ hist' = [hist EXCEPT !.adds = @ + 1]
    /\ ret' = [op |-> "Handle", logs |-> <<>>, n |-> 0]
    /\ UNCHANGED <<maxLogs, filtered>>
    /\ UNCHANGED <<threadVars, handlerVars, levelVars, query, ringVars>>
    /\ UNCHANGED mapped
    /\ UNCHANGED elsewhere
    /\ UNCHANGED local
    /\ UNCHANGED versions
    /\ UNCHANGED fx

\* logs.TakeAll(): o.logs = nil leaves the backing array to the slices
\* handed out.
SnapTakeAll ==
    /\ ~panicked
    /\ hist.takes < MaxTakes
    /\ LET r == DefaultTakeAll(store) IN
         /\ store' = r.o
         /\ ret' = [op |-> "TakeAll", logs |-> r.ret, n |-> 0]
    /\ snap' = [snap EXCEPT !.shared = FALSE]
    /\ hist' = [hist EXCEPT !.takes = @ + 1]
    /\ UNCHANGED <<maxLogs, filtered, heap, panicked>>
    /\ UNCHANGED <<threadVars, handlerVars, levelVars, query, ringVars>>
    /\ UNCHANGED mapped
    /\ UNCHANGED elsewhere
    /\ UNCHANGED local
    /\ UNCHANGED versions
    /\ UNCHANGED fx

\* logs.AllUntimed()
SnapAllUntimed ==
    /\ ~panicked
    /\ LET r == DefaultAllUntimedSlice(store) IN
         /\ store' = r.o
         /\ ret' = [op |-> "AllUntimed", logs |-> r.ret, n |-> 0]
    /\ UNCHANGED <<maxLogs, filtered, heap, panicked, hist, snap>>
    /\ UNCHANGED <<threadVars, handlerVars, levelVars, query, ringVars>>
    /\ UNCHANGED mapped
    /\ UNCHANGED elsewhere
    /\ UNCHANGED local
    /\ UNCHANGED versions
    /\ UNCHANGED fx

NextSnap ==
    \/ SnapAll
    \/ \E i \in 1..Len(snap.logs) : SnapSet(i)
    \/ \E i \in 1..Len(snap.logs), j \in 1..Len(snap.logs) : SnapSwap(i, j)
    \/ SnapAdd
    \/ SnapHandle
    \/ SnapTakeAll
    \/ SnapAllUntimed

SpecSnap == InitSnap /\ [][NextSnap]_vars

----------------------------------------------------------------------------
(* LoggedRecord.AttrsMap                                                    *)

\* A map[string]any is a function on its keys.  An entry is the any that
\* a.Value.Any() gives, or the map made of a group.
AnyOf(a) == [isMap |-> FALSE, kind |-> a.Kind, num |-> a.Num]
MapOf(m) == [isMap |-> TRUE, m |-> m]

\* res[k] = v
MapSet(res, k, v) ==
    [x \in DOMAIN res \cup {k} |-> IF x = k THEN v ELSE res[x]]

\* The loop of attrsMap over attrs, res being the map made so far: an
\* attribute with the empty key is skipped whatever its value is, a group
\* becomes the map of its attributes, any other attribute its value.
RECURSIVE attrsMap(_, _)
attrsMap(attrs, res) ==
    IF attrs = <<>> THEN res
    ELSE LET a == Head(attrs) IN
         IF a.Key = "" THEN attrsMap(Tail(attrs), res)
         ELSE IF a.Kind = "Group"
         THEN attrsMap(Tail(attrs),
                       MapSet(res, a.Key, MapOf(attrsMap(a.Group, <<>>))))
         ELSE attrsMap(Tail(attrs), MapSet(res, a.Key, AnyOf(a)))

\* e.AttrsMap(): e.attrsMap(e.Attrs), which starts from an empty map.
AttrsMap(e) == attrsMap(e.Attrs, <<>>)

\* The attributes of the records AttrsMap is called on: values under one
\* key and under two, the attribute slog.Attr{}, a value and a group under
\* the empty key, and groups of one and two levels.
MapLeaves ==
    {IntAttr("k1", 1), IntAttr("k1", 2), IntAttr("k2", 1), ZeroAttr,
     IntAttr("", 1)}

MapGroups ==
    {GroupAttr("g", <<>>),
     GroupAttr("g", <<IntAttr("k1", 1)>>),
     GroupAttr("g", <<IntAttr("k1", 1), IntAttr("k1", 2)>>),
     GroupAttr("g", <<ZeroAttr, IntAttr("k2", 1)>>),
     GroupAttr("g", <<IntAttr("", 1)>>),
     GroupAttr("g", <<GroupAttr("h", <<IntAttr("k1", 2)>>)>>),
     GroupAttr("", <<IntAttr("k2", 1)>>)}

MapAttrLists ==
    UNION {[1..n -> MapLeaves \cup MapGroups] : n \in 0..MaxAttrs}

InitMap ==
    /\ maxLogs = 0
    /\ store = NewObservedLogsDefault(maxLogs)
    /\ filtered = NewObservedLogsDefault(0)
    /\ heap = <<>>
    /\ panicked = FALSE
    /\ ret = NoRet
    /\ hist = [added |-> <<>>, adds |-> 0, takes |-> 0, before |-> <<>>,
               reads |-> 0]
    /\ NoThreads
    /\ NoHandlers
    /\ NoLevels
    /\ query = <<>>
    /\ versions = <<>>
    /\ snap = NoSnap
    /\ \E attrs \in MapAttrLists :
          mapped = [attrs |-> attrs, after |-> attrs, out |-> <<>>,
                    done |-> FALSE]
    /\ NoRing

\* m := e.AttrsMap() on the record e with the attributes mapped.attrs;
\* attrsMap reads e.Attrs and writes the new map only.
AttrsMapCall ==
    /\ ~mapped.done
    /\ LET e == LoggedRecord(HelloRecord, mapped.attrs) IN
         mapped' = [mapped EXCEPT !.out = AttrsMap(e), !.after = e.Attrs,
                                  !.done = TRUE]
    /\ ret' = [op |-> "AttrsMap", logs |-> <<>>, n |-> 0]
    /\ UNCHANGED <<maxLogs, store, filtered, heap, panicked, hist, snap>>
    /\ UNCHANGED <<threadVars, handlerVars, levelVars, query, ringVars>>
    /\ UNCHANGED elsewhere
    /\ UNCHANGED local
    /\ UNCHANGED versions
    /\ UNCHANGED fx

NextMap == AttrsMapCall

SpecMap == InitMap /\ [][NextMap]_vars

----------------------------------------------------------------------------
(* A logger and the loggers derived from it, logging one after another:    *)
(* New(nil), WithAttrs and WithGroup on the handlers obtained, and Handle  *)
(* on any of them.  Callers pass slog.Attr{} where a field is left out, as *)
(* moduleField and maybeBool do.                                           *)

\* The attribute lists passed to WithAttrs.
LogAttrLists == {<<IntAttr("a", 1)>>, <<ZeroAttr, IntAttr("b", 2)>>}

\* The attributes of the records passed to Handle; Record.AddAttrs leaves
\* out empty groups only.
LogRecordAttrLists ==
    {<<>>, <<IntAttr("j", 4)>>, <<IntAttr("j", 4), ZeroAttr>>}

\* The records differ in their time.
LogRecord(n) == [Time |-> n, Level |-> LevelInfo, Message |-> "hello"]

InitLog ==
    /\ maxLogs = 0
    /\ store = NewObservedLogsDefault(maxLogs)
    /\ filtered = NewObservedLogsDefault(0)
    /\ heap = <<>>
    /\ panicked = FALSE
    /\ ret = NoRet
    /\ hist = [added |-> <<>>, adds |-> 0, takes |-> 0, before |-> <<>>,
               reads |-> 0]
    /\ NoThreads
    /\ handlers = <<NewHandler>>
    /\ chain = <<[parent |-> 0, with |-> <<>>, flat |-> <<>>, groups |-> <<>>]>>
    /\ calls = <<>>
    /\ elsewhere = <<>>
    /\ NoLevels
    /\ NoQuery
    /\ NoRing

NextLog ==
    \/ \E c \in 1..Len(handlers), attrs \in LogAttrLists :
          Len(handlers) <= MaxDerived /\ WithAttrs(c, attrs)
    \/ \E c \in 1..Len(handlers) :
          /\ Len(handlers) <= MaxDerived
          /\ WithGroup(c, GroupName(handlers[c].groups.len))
    \/ \E c \in 1..Len(handlers), recordAttrs \in LogRecordAttrLists :
          /\ Len(calls) < MaxLogged
          /\ Handle(c, LogRecord(Len(calls) + 1), recordAttrs)

SpecLog == InitLog /\ [][NextLog]_vars

----------------------------------------------------------------------------
(* Goroutines that read and write one store, bounded or not: Add and       *)
(* TakeAll as above, and Len, All, AllUntimed and Filter, which hold the   *)
(* read lock while they read o.logs.                                       *)

\* The reading calls; AllUntimed takes the lock in All, FilterMessage in
\* Filter.
Readers == {"Len", "All", "AllUntimed", "Filter"}

InitRW ==
    /\ maxLogs \in {0, 1}
    /\ store = NewObservedLogsDefault(maxLogs)
    /\ filtered = NewObservedLogsDefault(0)
    /\ heap = <<>>
    /\ panicked = FALSE
    /\ ret = NoRet
    /\ hist = [added |-> <<>>, adds |-> 0, takes |-> 0, before |-> <<>>,
               reads |-> 0]
    /\ NoThreads
    /\ NoHandlers
    /\ NoLevels
    /\ NoQuery
    /\ NoRing

\* The calls made so far: those of Add and TakeAll, and the reading calls.
CallsMade == hist.adds + hist.takes + hist.reads

ReadCall(t, op) ==
    /\ ~panicked
    /\ pc[t] = "idle"
    /\ arg' = [arg EXCEPT ![t] = [op |-> op]]
    /\ pc' = [pc EXCEPT ![t] = "RLock"]
    /\ hist' = [hist EXCEPT !.reads = @ + 1]
    /\ UNCHANGED <<maxLogs, store, filtered, heap, panicked, ret, mu, taken>>
    /\ UNCHANGED <<handlerVars, elsewhere, local>>
    /\ UNCHANGED <<levelVars, query, ringVars, snap, mapped>>
    /\ UNCHANGED versions
    /\ UNCHANGED fx

\* o.mu.RLock(): waits while a writer holds the lock.
ReadRLock(t) ==
    /\ pc[t] = "RLock"
    /\ mu.w = 0
    /\ mu' = [mu EXCEPT !.r = @ \cup {t}]
    /\ pc' = [pc EXCEPT ![t] = "Read"]
    /\ UNCHANGED <<maxLogs, store, filtered, heap, panicked, ret, hist, arg,
                   taken>>
    /\ UNCHANGED <<handlerVars, elsewhere, local>>
    /\ UNCHANGED <<levelVars, query, ringVars, snap, mapped>>
    /\ UNCHANGED versions
    /\ UNCHANGED fx

\* What the call reads under the lock and returns.
ReadBody(t) ==
    /\ pc[t] = "Read"
    /\ CASE arg[t].op = "Len" ->
              /\ ret' = [op |-> "Len", logs |-> <<>>, n |-> DefaultLen(store)]
              /\ UNCHANGED filtered
         [] arg[t].op = "All" ->
              /\ ret' = [op |-> "All", logs |-> DefaultAll(store), n |-> 0]
              /\ UNCHANGED filtered
         [] arg[t].op = "AllUntimed" ->
              /\ ret' = [op |-> "AllUntimed",
                         logs |-> DefaultAllUntimed(store), n |-> 0]
              /\ UNCHANGED filtered
         [] arg[t].op = "Filter" ->
              /\ ret' = [op |-> "Filter", logs |-> <<>>, n |-> 0]
              /\ filtered' = DefaultFilterKeep(heap, store, KeepMessage("m1")).o
    /\ pc' = [pc EXCEPT ![t] = "RUnlock"]
    /\ UNCHANGED <<maxLogs, store, heap, panicked, hist, mu, arg, taken>>
    /\ UNCHANGED <<handlerVars, elsewhere, local>>
    /\ UNCHANGED <<levelVars, query, ringVars, snap, mapped>>
    /\ UNCHANGED versions
    /\ UNCHANGED fx

\* o.mu.RUnlock()
ReadRUnlock(t) ==
    /\ pc[t] = "RUnlock"
    /\ mu' = [mu EXCEPT !.r = @ \ {t}]
    /\ pc' = [pc EXCEPT ![t] = "idle"]
    /\ arg' = [arg EXCEPT ![t] = NoArg]
    /\ UNCHANGED <<maxLogs, store, filtered, heap, panicked, ret, hist, taken>>
    /\ UNCHANGED <<handlerVars, elsewhere, local>>
    /\ UNCHANGED <<levelVars, query, ringVars, snap, mapped>>
    /\ UNCHANGED versions
    /\ UNCHANGED fx

NextRW ==
    \E t \in Threads :
        \/ CallsMade < MaxCalls /\ AddCall(t)
        \/ AddLock(t)
        \/ AddBody(t)
        \/ AddStore(t)
        \/ AddUnlock(t)
        \/ CallsMade < MaxCalls /\ TakeAllCall(t)
        \/ TakeAllLock(t)
        \/ TakeAllBody(t)
        \/ TakeAllUnlock(t)
        \/ \E op \in Readers : CallsMade < MaxCalls /\ ReadCall(t, op)
        \/ ReadRLock(t)
        \/ ReadBody(t)
        \/ ReadRUnlock(t)

\* The steps of a call that holds the lock: the scheduler runs a goroutine
\* that can run.
Running(t) ==
    \/ AddBody(t)
    \/ AddStore(t)
    \/ AddUnlock(t)
    \/ TakeAllBody(t)
    \/ TakeAllUnlock(t)
    \/ ReadBody(t)
    \/ ReadRUnlock(t)

\* Fair scheduling: a goroutine that can run does run, and one that waits
\* for the lock gets it when the lock is free again and again (sync.Mutex
\* hands the lock to a waiter that starved; a waiting writer of a
\* sync.RWMutex holds back the readers that come after it).
SpecRWFair ==
    /\ InitRW
    /\ [][NextRW]_vars
    /\ \A t \in Threads :
          /\ WF_vars(Running(t))
          /\ SF_vars(AddLock(t) \/ TakeAllLock(t))
          /\ SF_vars(ReadRLock(t))

----------------------------------------------------------------------------
(* The filters made of Filter: FilterMessage, FilterMessageSnippet and      *)
(* FilterLevelExact, called on an unbounded store of records that differ   *)
(* in message and level.                                                    *)

\* o.FilterMessage(msg)
DefaultFilterMessage(h, o, msg) == DefaultFilterKeep(h, o, KeepMessage(msg))

\* o.FilterMessageSnippet(snippet)
DefaultFilterMessageSnippet(h, o, snippet) ==
    DefaultFilterKeep(h, o, KeepSnippet(snippet))

\* Mutant of FilterLevelExact: r.Record.Level >= level.
DefaultFilterLevelAtLeast(h, o, level) ==
    [o |-> [fixed |-> FALSE, size |-> 0,
            logs |-> SelectSeq(o.logs, LAMBDA lr : lr.Record.Level >= level),
            cap |-> 0],
     panic |-> FALSE]

\* o.FilterLevelExact(level)
DefaultFilterLevelExact(h, o, level) == DefaultFilterKeep(h, o, KeepLevel(level))

ConvMessages == {"ab", "ba", "a.b"}

Snippets == {"", "a", "b", "ab", ".", "b*"}

ConvLevels == {LevelInfo, LevelWarn, LevelError}

ConvRecords ==
    {[Time |-> 1, Level |-> l, Message |-> m] :
        l \in {LevelInfo, LevelWarn}, m \in ConvMessages}

InitConv ==
    /\ maxLogs = 0
    /\ store = NewObservedLogsDefault(maxLogs)
    /\ filtered = NewObservedLogsDefault(0)
    /\ heap = <<>>
    /\ panicked = FALSE
    /\ ret = NoRet
    /\ hist = [added |-> <<>>, adds |-> 0, takes |-> 0, before |-> <<>>,
               reads |-> 0]
    /\ NoThreads
    /\ NoHandlers
    /\ NoLevels
    /\ NoQuery
    /\ NoRing

\* What a filter call leaves: the store returned and the predicate asked.
Filtered(f, keep) ==
    /\ ~panicked
    /\ panicked' = f.panic
    /\ filtered' = IF f.panic THEN filtered ELSE f.o
    /\ query' = <<keep>>
    /\ UNCHANGED <<maxLogs, store, heap, hist>>
    /\ UNCHANGED <<threadVars, handlerVars, levelVars, ringVars>>
    /\ UNCHANGED <<snap, mapped, elsewhere, local>>
    /\ UNCHANGED versions
    /\ UNCHANGED fx

FilterMessage(msg) ==
    /\ Filtered(DefaultFilterMessage(heap, store, msg), KeepMessage(msg))
    /\ ret' = [op |-> "FilterMessage", logs |-> <<>>, n |-> 0]

FilterMessageSnippet(snippet) ==
    /\ Filtered(DefaultFilterMessageSnippet(heap, store, snippet),
                KeepSnippet(snippet))
    /\ ret' = [op |-> "FilterMessageSnippet", logs |-> <<>>, n |-> 0]

FilterLevelExact(level) ==
    /\ Filtered(DefaultFilterLevelExact(heap, store, level), KeepLevel(level))
    /\ ret' = [op |-> "FilterLevelExact", logs |-> <<>>, n |-> 0]

NextConv ==
    \/ \E record \in ConvRecords :
          Len(store.logs) < MaxStored /\ Add(record, NilSlice)
    \/ \E msg \in ConvMessages \cup {"b"} : FilterMessage(msg)
    \/ \E snippet \in Snippets : FilterMessageSnippet(snippet)
    \/ \E level \in ConvLevels : FilterLevelExact(level)

SpecConv == InitConv /\ [][NextConv]_vars

----------------------------------------------------------------------------
(* A caller that keeps the store Filter returned and goes on calling Add    *)
(* and TakeAll on it and on the store that was filtered; an                 *)
(* ObservedLogsDefault and an ObservedLogsRing are given the same calls.    *)
(* snap.shared tells whether the logs of the returned store have the        *)
(* backing array of the logs of the filtered one.                           *)

\* Mutant of Filter: filtered := o.logs[:0], so that append writes the kept
\* entries over the first cells of o.logs.
FilteredSliceInPlace(o, kept) ==
    [logs |-> kept, shared |-> o.cap > 0, src |-> CopyAt(o.logs, 0, kept)]

\* var filtered []LoggedRecord; filtered = append(filtered, entry): a nil
\* slice that append moves to an array of its own; o.logs is only read.
FilteredSlice(o, kept) == [logs |-> kept, shared |-> FALSE, src |-> o.logs]

\* The logs of the other store after an append took this one from o to o2,
\* when both have one backing array: the cells up to len(o2.logs) are those
\* of o2, unless append moved o2.logs to a new array.
LogsAfterAppend(logs, shared, o, o2) ==
    IF ~shared \/ o2.cap # o.cap THEN logs
    ELSE [i \in 1..Len(logs) |->
             IF i <= Len(o2.logs) THEN o2.logs[i] ELSE logs[i]]

\* The records the caller adds to either store.
DerivedRecords == {LoggedRecord(record, NilSlice) : record \in Records}

InitDerived ==
    /\ maxLogs \in 0..MaxK
    /\ store = NewObservedLogsDefault(maxLogs)
    /\ filtered = NewObservedLogsDefault(0)
    /\ heap = <<>>
    /\ panicked = FALSE
    /\ ret = NoRet
    /\ hist = [added |-> <<>>, adds |-> 0, takes |-> 0, before |-> <<>>,
               reads |-> 0]
    /\ NoThreads
    /\ NoHandlers
    /\ NoLevels
    /\ NoQuery
    /\ NoRing

\* logs.Add(record, nil) on the store that is, or will be, filtered.
SourceAdd(lr) ==
    /\ ~panicked /\ ~ringPanicked
    /\ hist.adds < MaxStored
    /\ LET r  == DefaultAdd(store, lr)
           sn == SliceAfterAdd([logs |-> filtered.logs,
                                shared |-> snap.shared], store, r.o)
       IN  /\ store' = r.o
           /\ panicked' = r.panic
           /\ filtered' = [filtered EXCEPT !.logs = sn.logs]
           /\ snap' = [snap EXCEPT !.shared = sn.shared]
    /\ ring' = RingAdd(ring, lr)
    /\ hist' = [hist EXCEPT !.added = Append(@, lr), !.adds = @ + 1]
    /\ ret' = Returned("Add")
    /\ ringRet' = Returned("Add")
    /\ UNCHANGED <<maxLogs, heap, ringPanicked, ringFiltered, query>>
    /\ UNCHANGED <<threadVars, handlerVars, levelVars>>
    /\ UNCHANGED <<mapped, elsewhere, local>>
    /\ UNCHANGED versions
    /\ UNCHANGED fx

\* logs.TakeAll() on the store that was filtered.
SourceTakeAll ==
    /\ ~panicked /\ ~ringPanicked
    /\ hist.takes < MaxTakes
    /\ LET r == DefaultTakeAll(store) IN
         /\ store' = r.o
         /\ ret' = [op |-> "TakeAll", logs |-> r.ret, n |-> 0]
    /\ LET r == RingTakeAll(ring) IN
         /\ ring' = r.o
         /\ ringRet' = [op |-> "TakeAll", logs |-> r.ret, n |-> 0]
         /\ ringPanicked' = r.panic
    /\ snap' = [snap EXCEPT !.shared = FALSE]
    /\ hist' = [hist EXCEPT !.added = <<>>, !.takes = @ + 1]
    /\ UNCHANGED <<maxLogs, filtered, heap, panicked, ringFiltered, query>>
    /\ UNCHANGED <<threadVars, handlerVars, levelVars>>
    /\ UNCHANGED <<mapped, elsewhere, local>>
    /\ UNCHANGED versions
    /\ UNCHANGED fx

\* kept := logs.Filter(keep), also reached as FilterMessage and
\* FilterLevelExact; the caller keeps kept.
DerivedFilter(keep) ==
    /\ ~panicked /\ ~ringPanicked
    /\ query = <<>>
    /\ LET f == DefaultFilterKeep(heap, store, keep)
           s == FilteredSlice(store, f.o.logs)
       IN  /\ panicked' = f.panic
           /\ filtered' = IF f.panic THEN filtered ELSE f.o
           /\ store' = IF f.panic THEN store ELSE [store EXCEPT !.logs = s.src]
           /\ snap' = [snap EXCEPT !.shared = ~f.panic /\ s.shared]
    /\ LET f == RingFilterKeep(heap, ring, keep) IN
         /\ ringPanicked' = f.panic
         /\ ringFiltered' = IF f.panic THEN ringFiltered ELSE f.o
    /\ query' = <<keep>>
    /\ ret' = Returned("Filter")
    /\ ringRet' = Returned("Filter")
    /\ UNCHANGED <<maxLogs, heap, hist, ring>>
    /\ UNCHANGED <<threadVars, handlerVars, levelVars>>
    /\ UNCHANGED <<mapped, elsewhere, local>>
    /\ UNCHANGED versions
    /\ UNCHANGED fx

\* kept.Add(record, nil) on the stores Filter returned.
FilteredAdd(lr) ==
    /\ ~panicked /\ ~ringPanicked
    /\ query # <<>>
    /\ filtered.size <= MaxK
    /\ LET r == DefaultAdd(filtered, lr) IN
         /\ filtered' = r.o
         /\ panicked' = r.panic
         /\ store' = [store EXCEPT
                        !.logs = LogsAfterAppend(@, snap.shared, filtered, r.o)]
         /\ snap' = [snap EXCEPT !.shared = @ /\ r.o.cap = filtered.cap]
    /\ ringFiltered' = RingAdd(ringFiltered, lr)
    /\ ret' = Returned("FilteredAdd")
    /\ ringRet' = Returned("FilteredAdd")
    /\ UNCHANGED <<maxLogs, heap, hist, ring, ringPanicked, query>>
    /\ UNCHANGED <<threadVars, handlerVars, levelVars>>
    /\ UNCHANGED <<mapped, elsewhere, local>>
    /\ UNCHANGED versions
    /\ UNCHANGED fx

\* kept.TakeAll() on the stores Filter returned, when kept has records.
FilteredTakeAll ==
    /\ ~panicked /\ ~ringPanicked
    /\ query # <<>>
    /\ filtered.logs # <<>>
    /\ LET r == DefaultTakeAll(filtered) IN
         /\ filtered' = r.o
         /\ ret' = [op |-> "FilteredTakeAll", logs |-> r.ret, n |-> 0]
    /\ LET r == RingTakeAll(ringFiltered) IN
         /\ ringFiltered' = r.o
         /\ ringRet' = [op |-> "FilteredTakeAll", logs |-> r.ret, n |-> 0]
         /\ ringPanicked' = r.panic
    /\ snap' = [snap EXCEPT !.shared = FALSE]
    /\ UNCHANGED <<maxLogs, store, heap, panicked, hist, ring, query>>
    /\ UNCHANGED <<threadVars, handlerVars, levelVars>>
    /\ UNCHANGED <<mapped, elsewhere, local>>
    /\ UNCHANGED versions
    /\ UNCHANGED fx

NextDerived ==
    \/ \E lr \in DerivedRecords : SourceAdd(lr)
    \/ SourceTakeAll
    \/ \E msg \in Messages : DerivedFilter(KeepMessage(msg))
    \/ DerivedFilter(KeepLevel(LevelInfo))
    \/ \E lr \in DerivedRecords : FilteredAdd(lr)
    \/ FilteredTakeAll

SpecDerived == InitDerived /\ [][NextDerived]_vars

----------------------------------------------------------------------------
(* Goroutines that call Handle on handlers made beforehand: the one New     *)
(* returned, WithGroup("foo") of it and WithGroup("bar") of that one.       *)
(* Handle takes no lock before c.logs.Add; every read and every write of    *)
(* the array of c.groups is a step of its own.                              *)

\* The handlers and the heap after New(nil), WithGroup("foo"),
\* WithGroup("bar").
RaceSetup ==
    LET foo == HandlerWithGroup(<<>>, NewHandler, GroupName(0))
        bar == HandlerWithGroup(foo.h, foo.c, GroupName(1))
    IN  [h |-> bar.h, handlers |-> <<NewHandler, foo.c, bar.c>>]

\* The attributes of the records goroutine t logs.
RaceAttrLists(t) == {<<>>, <<IntAttr("j", t)>>}

InitRace ==
    /\ maxLogs = 0
    /\ store = NewObservedLogsDefault(maxLogs)
    /\ filtered = NewObservedLogsDefault(0)
    /\ heap = RaceSetup.h
    /\ panicked = FALSE
    /\ ret = NoRet
    /\ hist = [added |-> <<>>, adds |-> 0, takes |-> 0, before |-> <<>>,
               reads |-> 0]
    /\ NoThreads
    /\ handlers = RaceSetup.handlers
    /\ chain = <<[parent |-> 0, with |-> <<>>, flat |-> <<>>, groups |-> <<>>],
                 [parent |-> 1, with |-> <<>>, flat |-> <<>>,
                  groups |-> <<[name |-> GroupName(0), attrs |-> <<>>]>>],
                 [parent |-> 2, with |-> <<>>, flat |-> <<>>,
                  groups |-> <<[name |-> GroupName(0), attrs |-> <<>>],
                               [name |-> GroupName(1), attrs |-> <<>>]>>]>>
    /\ calls = <<>>
    /\ elsewhere = <<>>
    /\ NoLevels
    /\ NoQuery
    /\ NoRing

\* Goroutine t calls c.Handle(ctx, record): rc, attrs and recordAttrs are
\* made; without an open group attrs = append(recordAttrs, attrs...) and
\* the call goes on to c.logs.Add.
HandleCall(t, c, recordAttrs) ==
    /\ ~panicked
    /\ pc[t] = "idle"
    /\ recordAttrs \in RaceAttrLists(t)
    /\ hist.adds < MaxLogged
    /\ hist' = [hist EXCEPT !.adds = @ + 1]
    /\ IF handlers[c].groups.len > 0
       THEN /\ arg' = [arg EXCEPT ![t] = [op |-> "Handle", c |-> c,
                                          rec |-> recordAttrs,
                                          attrs |-> NilSlice]]
            /\ pc' = [pc EXCEPT ![t] = "HandleGroup"]
            /\ UNCHANGED heap
       ELSE LET r == HandlerHandle(heap, handlers[c], recordAttrs) IN
            /\ heap' = r.h
            /\ arg' = [arg EXCEPT ![t] = [op |-> "Handle", c |-> c,
                                          rec |-> recordAttrs,
                                          attrs |-> r.attrs]]
            /\ pc' = [pc EXCEPT ![t] = "HandleAdd"]
    /\ UNCHANGED <<maxLogs, store, filtered, panicked, ret, mu, taken>>
    /\ UNCHANGED <<handlerVars, elsewhere, local>>
    /\ UNCHANGED <<levelVars, query, ringVars, snap, mapped>>
    /\ UNCHANGED versions
    /\ UNCHANGED fx

\* if len(recordAttrs) > 0: c.groups[currentGroupIdx].Value.Group() is read.
HandleGroupRead(t) ==
    /\ pc[t] = "HandleGroup"
    /\ LET c == handlers[arg[t].c] IN
       IF Len(arg[t].rec) > 0
       THEN /\ local' = [local EXCEPT ![t] =
                           [group |-> heap[c.groups.arr][c.groups.len].Group]]
            /\ pc' = [pc EXCEPT ![t] = "HandleGroupWrite"]
       ELSE /\ pc' = [pc EXCEPT ![t] = "HandleFold"]
            /\ UNCHANGED local
    /\ UNCHANGED <<maxLogs, store, filtered, heap, panicked, ret, hist, mu,
                   arg, taken>>
    /\ UNCHANGED <<handlerVars, elsewhere>>
    /\ UNCHANGED <<levelVars, query, ringVars, snap, mapped>>
    /\ UNCHANGED versions
    /\ UNCHANGED fx

\* c.groups[currentGroupIdx].Value = slog.GroupValue(append(<what was
\* read>, recordAttrs...)...), written into the array of c.groups.
HandleGroupWrite(t) ==
    /\ pc[t] = "HandleGroupWrite"
    /\ LET c == handlers[arg[t].c] IN
       heap' = [heap EXCEPT ![c.groups.arr][c.groups.len].Group =
                               GroupValue(local[t].group \o arg[t].rec)]
    /\ local' = [local EXCEPT ![t] = NoLocal]
    /\ pc' = [pc EXCEPT ![t] = "HandleFold"]
    /\ UNCHANGED <<maxLogs, store, filtered, panicked, ret, hist, mu, arg,
                   taken>>
    /\ UNCHANGED <<handlerVars, elsewhere>>
    /\ UNCHANGED <<levelVars, query, ringVars, snap, mapped>>
    /\ UNCHANGED versions
    /\ UNCHANGED fx

\* The loop that folds group i into group i-1 in the array of c.groups,
\* then attrs = append(attrs, c.groups[0]).
HandleFold(t) ==
    /\ pc[t] = "HandleFold"
    /\ LET c  == handlers[arg[t].c]
           h2 == FoldGroups(heap, c.groups.arr, c.groups.len)
           r  == AppendAttrs(h2, Clip(c.attrs), <<h2[c.groups.arr][1]>>)
       IN  /\ heap' = r.h
           /\ arg' = [arg EXCEPT ![t].attrs = r.s]
    /\ pc' = [pc EXCEPT ![t] = "HandleAdd"]
    /\ UNCHANGED <<maxLogs, store, filtered, panicked, ret, hist, mu, taken>>
    /\ UNCHANGED <<handlerVars, elsewhere, local>>
    /\ UNCHANGED <<levelVars, query, ringVars, snap, mapped>>
    /\ UNCHANGED versions
    /\ UNCHANGED fx

\* c.logs.Add(rc, attrs): one step, Add holds the store's lock.
HandleAdd(t) ==
    /\ ~panicked
    /\ pc[t] = "HandleAdd"
    /\ LET r == DefaultAdd(store, LoggedRecord(HelloRecord, arg[t].attrs)) IN
         /\ store' = r.o
         /\ panicked' = r.panic
    /\ calls' = Append(calls, [by |-> arg[t].c, rec |-> arg[t].rec,
                               record |-> HelloRecord])
    /\ ret' = [op |-> "Handle", logs |-> <<>>, n |-> t]
    /\ pc' = [pc EXCEPT ![t] = "idle"]
    /\ arg' = [arg EXCEPT ![t] = NoArg]
    /\ UNCHANGED <<maxLogs, filtered, heap, hist, mu, taken>>
    /\ UNCHANGED <<handlers, chain, elsewhere, local>>
    /\ UNCHANGED <<levelVars, query, ringVars, snap, mapped>>
    /\ UNCHANGED versions
    /\ UNCHANGED fx

NextRace ==
    \/ \E t \in Threads, c \in 1..Len(handlers),
          recordAttrs \in UNION {RaceAttrLists(u) : u \in Threads} :
          HandleCall(t, c, recordAttrs)
    \/ \E t \in Threads : HandleGroupRead(t)
    \/ \E t \in Threads : HandleGroupWrite(t)
    \/ \E t \in Threads : HandleFold(t)
    \/ \E t \in Threads : HandleAdd(t)

SpecRace == InitRace /\ [][NextRace]_vars

----------------------------------------------------------------------------
(* Goroutines that call Filter, Add and TakeAll on one ObservedLogsDefault  *)
(* that already holds records.  Filter's scan is one step per entry;        *)
(* versions lists the contents the store had.                               *)

\* The i-th record added before the goroutines start.
ScanRecord(i) ==
    LoggedRecord([Time |-> i, Level |-> LevelInfo,
                  Message |-> IF i % 2 = 1 THEN "m1" ELSE "m2"], NilSlice)

\* The store after Add was called for the records lrs, one after the other.
RECURSIVE AddAll(_, _)
AddAll(o, lrs) ==
    IF lrs = <<>> THEN o ELSE AddAll(DefaultAdd(o, Head(lrs)).o, Tail(lrs))

\* The predicates the goroutines filter with.
ScanKeeps == {KeepMessage("m1"), KeepLevel(LevelInfo)}

InitScan ==
    /\ maxLogs \in {0, MaxK}
    /\ \E n \in {0, MaxK} :
          store = AddAll(NewObservedLogsDefault(maxLogs),
                         [i \in 1..n |-> ScanRecord(i)])
    /\ filtered = NewObservedLogsDefault(0)
    /\ heap = <<>>
    /\ panicked = FALSE
    /\ ret = NoRet
    /\ hist = [added |-> <<>>, adds |-> 0, takes |-> 0, before |-> <<>>,
               reads |-> 0]
    /\ NoThreads
    /\ NoHandlers
    /\ NoLevels
    /\ query = <<>>
    /\ snap = NoSnap
    /\ mapped = NoMapped
    /\ versions = <<store.logs>>
    /\ NoRing

\* A goroutine calls Add(record, nil) or TakeAll().  outer is the Filter
\* call whose predicate makes the call, NoArg for a call of the goroutine
\* itself.
WriteCall(t, op, msg) ==
    /\ ~panicked
    /\ pc[t] = "idle"
    /\ CallsMade < MaxCalls
    /\ arg' = [arg EXCEPT ![t] =
                  [op |-> op, outer |-> NoArg,
                   lr |-> LoggedRecord([Time |-> 9, Level |-> LevelInfo,
                                        Message |-> msg], NilSlice)]]
    /\ pc' = [pc EXCEPT ![t] = "Lock"]
    /\ hist' = IF op = "Add" THEN [hist EXCEPT !.adds = @ + 1]
               ELSE [hist EXCEPT !.takes = @ + 1]
    /\ UNCHANGED <<maxLogs, store, filtered, heap, panicked, ret, mu, taken>>
    /\ UNCHANGED <<handlerVars, elsewhere, local>>
    /\ UNCHANGED <<levelVars, query, ringVars, snap, mapped, versions>>
    /\ UNCHANGED fx

\* Mutant of sync.RWMutex: Lock() does not wait for the read lock the
\* caller holds itself.
WriteLockReentrant(t) ==
    /\ pc[t] = "Lock"
    /\ mu.w = 0 /\ mu.r \subseteq {t}
    /\ mu' = [mu EXCEPT !.w = t]
    /\ pc' = [pc EXCEPT ![t] = "Write"]
    /\ UNCHANGED <<maxLogs, store, filtered, heap, panicked, ret, hist, arg,
                   taken>>
    /\ UNCHANGED <<handlerVars, elsewhere, local>>
    /\ UNCHANGED <<levelVars, query, ringVars, snap, mapped, versions>>
    /\ UNCHANGED fx

\* o.mu.Lock(): waits while a writer or a reader holds the lock.
WriteLock(t) ==
    /\ pc[t] = "Lock"
    /\ mu.w = 0 /\ mu.r = {}
    /\ mu' = [mu EXCEPT !.w = t]
    /\ pc' = [pc EXCEPT ![t] = "Write"]
    /\ UNCHANGED <<maxLogs, store, filtered, heap, panicked, ret, hist, arg,
                   taken>>
    /\ UNCHANGED <<handlerVars, elsewhere, local>>
    /\ UNCHANGED <<levelVars, query, ringVars, snap, mapped, versions>>
    /\ UNCHANGED fx

\* The body of Add or TakeAll, under the lock.
WriteBody(t) ==
    /\ pc[t] = "Write"
    /\ IF arg[t].op = "Add"
       THEN LET r == DefaultAdd(store, arg[t].lr) IN
            /\ store' = r.o
            /\ panicked' = r.panic
            /\ UNCHANGED taken
       ELSE LET r == DefaultTakeAll(store) IN
            /\ store' = r.o
            /\ taken' = Append(taken, r.ret)
            /\ UNCHANGED panicked
    /\ versions' = Append(versions, store'.logs)
    /\ pc' = [pc EXCEPT ![t] = "Unlock"]
    /\ UNCHANGED <<maxLogs, filtered, heap, ret, hist, mu, arg>>
    /\ UNCHANGED <<handlerVars, elsewhere, local>>
    /\ UNCHANGED <<levelVars, query, ringVars, snap, mapped>>
    /\ UNCHANGED fx

\* o.mu.Unlock(), and the return: to the caller, or into the predicate
\* that made the call, which then returns true to Filter's loop.
WriteUnlock(t) ==
    /\ ~panicked
    /\ pc[t] = "Unlock"
    /\ mu' = [mu EXCEPT !.w = 0]
    /\ IF arg[t].outer = NoArg
       THEN /\ pc' = [pc EXCEPT ![t] = "idle"]
            /\ arg' = [arg EXCEPT ![t] = NoArg]
            /\ UNCHANGED local
       ELSE /\ pc' = [pc EXCEPT ![t] = "FilterStep"]
            /\ arg' = [arg EXCEPT ![t] = arg[t].outer]
            /\ local' = [local EXCEPT ![t] =
                  [@ EXCEPT !.i = @ + 1,
                            !.filtered = Append(@, local[t].logs[local[t].i])]]
    /\ ret' = [op |-> "Unlock", logs |-> <<>>, n |-> t]
    /\ UNCHANGED <<maxLogs, store, filtered, heap, panicked, hist, taken>>
    /\ UNCHANGED <<handlerVars, elsewhere>>
    /\ UNCHANGED <<levelVars, query, ringVars, snap, mapped, versions>>
    /\ UNCHANGED fx

\* A goroutine calls Filter(keep); from is the place in versions of the
\* contents the store has at the call.
FilterCall(t, keep) ==
    /\ ~panicked
    /\ pc[t] = "idle"
    /\ CallsMade < MaxCalls
    /\ arg' = [arg EXCEPT ![t] = [op |-> "Filter", keep |-> keep,
                                  from |-> Len(versions)]]
    /\ pc' = [pc EXCEPT ![t] = "FilterRLock"]
    /\ hist' = [hist EXCEPT !.reads = @ + 1]
    /\ UNCHANGED <<maxLogs, store, filtered, heap, panicked, ret, mu, taken>>
    /\ UNCHANGED <<handlerVars, elsewhere, local>>
    /\ UNCHANGED <<levelVars, query, ringVars, snap, mapped, versions>>
    /\ UNCHANGED fx

\* Mutant of Filter: o.mu.RLock() is lost, the scan runs unlocked.
FilterRLockNoMutex(t) ==
    /\ pc[t] = "FilterRLock"
    /\ pc' = [pc EXCEPT ![t] = "FilterRange"]
    /\ UNCHANGED <<maxLogs, store, filtered, heap, panicked, ret, hist, arg,
                   taken, mu>>
    /\ UNCHANGED <<handlerVars, elsewhere, local>>
    /\ UNCHANGED <<levelVars, query, ringVars, snap, mapped, versions>>
    /\ UNCHANGED fx

\* o.mu.RLock(): waits while a writer holds the lock.
FilterRLock(t) ==
    /\ pc[t] = "FilterRLock"
    /\ mu.w = 0
    /\ mu' = [mu EXCEPT !.r = @ \cup {t}]
    /\ pc' = [pc EXCEPT ![t] = "FilterRange"]
    /\ UNCHANGED <<maxLogs, store, filtered, heap, panicked, ret, hist, arg,
                   taken>>
    /\ UNCHANGED <<handlerVars, elsewhere, local>>
    /\ UNCHANGED <<levelVars, query, ringVars, snap, mapped, versions>>
    /\ UNCHANGED fx

\* var filtered []LoggedRecord; range o.logs: the slice is read once, the
\* loop runs over its length.  takes tells which array the slice has.
FilterRange(t) ==
    /\ pc[t] = "FilterRange"
    /\ local' = [local EXCEPT ![t] =
                    [logs |-> store.logs, i |-> 1, filtered |-> <<>>,
                     takes |-> Len(taken)]]
    /\ pc' = [pc EXCEPT ![t] = "FilterStep"]
    /\ UNCHANGED <<maxLogs, store, filtered, heap, panicked, ret, hist, mu,
                   arg, taken>>
    /\ UNCHANGED <<handlerVars, elsewhere>>
    /\ UNCHANGED <<levelVars, query, ringVars, snap, mapped, versions>>
    /\ UNCHANGED fx

\* The entry the loop reads at place i: the cell of the array the slice
\* has.  A bounded store keeps its array until TakeAll drops it; the cells
\* below the length of an unbounded one are never written again.
RangeEntry(o, l, tk) ==
    IF o.fixed /\ tk = l.takes /\ l.i <= Len(o.logs) THEN o.logs[l.i]
    ELSE l.logs[l.i]

\* One turn of the loop for a predicate that calls nothing: if keep(entry)
\* { filtered = append(filtered, entry) }, or the end of the loop.
FilterStep(t) ==
    /\ pc[t] = "FilterStep"
    /\ arg[t].keep.fn # "Calls" \/ local[t].i > Len(local[t].logs)
    /\ LET l == local[t] IN
       IF l.i > Len(l.logs)
       THEN /\ pc' = [pc EXCEPT ![t] = "FilterRUnlock"]
            /\ UNCHANGED local
       ELSE LET entry == RangeEntry(store, l, Len(taken)) IN
            /\ local' = [local EXCEPT ![t] =
                  [l EXCEPT !.i = @ + 1,
                            !.filtered =
                               IF KeepCall(heap, arg[t].keep, entry).ok
                               THEN Append(@, entry) ELSE @]]
            /\ UNCHANGED pc
    /\ UNCHANGED <<maxLogs, store, filtered, heap, panicked, ret, hist, mu,
                   arg, taken>>
    /\ UNCHANGED <<handlerVars, elsewhere>>
    /\ UNCHANGED <<levelVars, query, ringVars, snap, mapped, versions>>
    /\ UNCHANGED fx

\* return &ObservedLogsDefault{logs: filtered}, then the deferred
\* o.mu.RUnlock().  ret.n is the place in versions of the contents at the
\* call.
FilterRUnlock(t) ==
    /\ pc[t] = "FilterRUnlock"
    /\ mu' = [mu EXCEPT !.r = @ \ {t}]
    /\ filtered' = [fixed |-> FALSE, size |-> 0, logs |-> local[t].filtered,
                    cap |-> Len(local[t].filtered)]
    /\ query' = <<arg[t].keep>>
    /\ ret' = [op |-> "Filter", logs |-> <<>>, n |-> arg[t].from]
    /\ pc' = [pc EXCEPT ![t] = "idle"]
    /\ arg' = [arg EXCEPT ![t] = NoArg]
    /\ local' = [local EXCEPT ![t] = NoLocal]
    /\ UNCHANGED <<maxLogs, store, heap, panicked, hist, taken>>
    /\ UNCHANGED <<handlerVars, elsewhere>>
    /\ UNCHANGED <<levelVars, ringVars, snap, mapped, versions>>
    /\ UNCHANGED fx

\* The predicates that call the store Filter is called on:
\* func(LoggedRecord) bool { o.Add(record, nil); return true } and
\* func(LoggedRecord) bool { o.TakeAll(); return true }.
KeepCalling(op) == [fn |-> "Calls", op |-> op]

\* One turn of the loop for such a predicate: keep(entry) is called, under
\* the read lock Filter holds, and calls Add or TakeAll.
FilterKeepCalls(t) ==
    /\ ~panicked
    /\ pc[t] = "FilterStep"
    /\ arg[t].keep.fn = "Calls"
    /\ local[t].i <= Len(local[t].logs)
    /\ arg' = [arg EXCEPT ![t] =
                  [op |-> arg[t].keep.op, outer |-> arg[t],
                   lr |-> LoggedRecord([Time |-> 9, Level |-> LevelInfo,
                                        Message |-> "m1"], NilSlice)]]
    /\ pc' = [pc EXCEPT ![t] = "Lock"]
    /\ UNCHANGED <<maxLogs, store, filtered, heap, panicked, ret, hist, mu,
                   taken>>
    /\ UNCHANGED <<handlerVars, elsewhere, local>>
    /\ UNCHANGED <<levelVars, query, ringVars, snap, mapped, versions>>
    /\ UNCHANGED fx

NextScan ==
    \/ \E t \in Threads, msg \in Messages : WriteCall(t, "Add", msg)
    \/ \E t \in Threads : WriteCall(t, "TakeAll", "m1")
    \/ \E t \in Threads : WriteLock(t)
    \/ \E t \in Threads : WriteBody(t)
    \/ \E t \in Threads : WriteUnlock(t)
    \/ \E t \in Threads, keep \in ScanKeeps : FilterCall(t, keep)
    \/ \E t \in Threads : FilterRLock(t)
    \/ \E t \in Threads : FilterRange(t)
    \/ \E t \in Threads : FilterStep(t)
    \/ \E t \in Threads : FilterRUnlock(t)

SpecScan == InitScan /\ [][NextScan]_vars

\* The same goroutines, with predicates that call Add or TakeAll.
NextReentrant ==
    \/ \E t \in Threads, msg \in Messages : WriteCall(t, "Add", msg)
    \/ \E t \in Threads : WriteCall(t, "TakeAll", "m1")
    \/ \E t \in Threads : WriteLock(t)
    \/ \E t \in Threads : WriteBody(t)
    \/ \E t \in Threads : WriteUnlock(t)
    \/ \E t \in Threads, op \in {"Add", "TakeAll"} :
          FilterCall(t, KeepCalling(op))
    \/ \E t \in Threads : FilterRLock(t)
    \/ \E t \in Threads : FilterRange(t)
    \/ \E t \in Threads : FilterStep(t)
    \/ \E t \in Threads : FilterKeepCalls(t)
    \/ \E t \in Threads : FilterRUnlock(t)

SpecReentrant == InitScan /\ [][NextReentrant]_vars

----------------------------------------------------------------------------
(* fxlogger.Logger over a handler of New(&HandlerOptions{Level: ...}): the  *)
(* caller sets the levels, logs one Fx event and takes the records, as      *)
(* TestLogger does.  The fields of a call are left out but for whether      *)
(* slogex.Error(err) is one of them.                                        *)

\* The Fx events: the type, whether Err (StartErr for RollingBack) is set,
\* and the length of OutputTypeNames.
FxWithErr == {"OnStartExecuted", "OnStopExecuted", "Supplied", "Run",
              "Invoked", "Stopped", "RolledBack", "Started",
              "LoggerInitialized"}
FxWithOutputs == {"Provided", "Replaced", "Decorated"}
FxPlain == {"OnStartExecuting", "OnStopExecuting", "Invoking", "Stopping"}

FxEvents ==
    {[type |-> ty, err |-> e, outputs |-> 0] : ty \in FxWithErr, e \in BOOLEAN}
    \cup {[type |-> ty, err |-> e, outputs |-> n] :
             ty \in FxWithOutputs, e \in BOOLEAN, n \in 0..MaxOutputs}
    \cup {[type |-> ty, err |-> FALSE, outputs |-> 0] : ty \in FxPlain}
    \cup {[type |-> "RollingBack", err |-> TRUE, outputs |-> 0],
          [type |-> "Unknown", err |-> FALSE, outputs |-> 0]}

\* A call of l.logEvent or l.logError made by LogEvent.
EventCall(msg) == [fn |-> "logEvent", msg |-> msg, error |-> FALSE]
ErrorCall(msg) == [fn |-> "logError", msg |-> msg, error |-> TRUE]

\* if e.Err != nil { logError(failed, ..., slogex.Error(e.Err)) } else
\* { logEvent(done, ...) }
ErrOrEvent(e, failed, done) ==
    IF e.err THEN <<ErrorCall(failed)>> ELSE <<EventCall(done)>>

\* if e.Err != nil { logError(failed, slogex.Error(e.Err)) }
ErrOnly(e, failed) == IF e.err THEN <<ErrorCall(failed)>> ELSE <<>>

\* for _, rtype := range e.OutputTypeNames { logEvent(each, ...) }; if
\* e.Err != nil { logError(failed, ..., slogex.Error(e.Err)) }
EachThenErr(e, each, failed) ==
    [i \in 1..e.outputs |-> EventCall(each)] \o ErrOnly(e, failed)

\* The switch of LogEvent: the calls it makes for the event, in order.
LogEventCalls(e) ==
    CASE e.type = "OnStartExecuting" -> <<EventCall("OnStart hook executing")>>
      [] e.type = "OnStartExecuted" ->
           ErrOrEvent(e, "OnStart hook failed", "OnStart hook executed")
      [] e.type = "OnStopExecuting" -> <<EventCall("OnStop hook executing")>>
      [] e.type = "OnStopExecuted" ->
           ErrOrEvent(e, "OnStop hook failed", "OnStop hook executed")
      [] e.type = "Supplied" ->
           ErrOrEvent(e, "error encountered while applying options",
                      "supplied")
      [] e.type = "Provided" ->
           EachThenErr(e, "provided",
                       "error encountered while applying options")
      [] e.type = "Replaced" ->
           EachThenErr(e, "replaced", "error encountered while replacing")
      [] e.type = "Decorated" ->
           EachThenErr(e, "decorated",
                       "error encountered while applying options")
      [] e.type = "Run" -> ErrOrEvent(e, "error returned", "run")
      [] e.type = "Invoking" -> <<EventCall("invoking")>>
      [] e.type = "Invoked" -> ErrOnly(e, "invoke failed")
      [] e.type = "Stopping" -> <<EventCall("received signal")>>
      [] e.type = "Stopped" -> ErrOnly(e, "stop failed")
      [] e.type = "RollingBack" -> <<ErrorCall("start failed, rolling back")>>
      [] e.type = "RolledBack" -> ErrOnly(e, "rollback failed")
      [] e.type = "Started" -> ErrOrEvent(e, "start failed", "started")
      [] e.type = "LoggerInitialized" ->
           ErrOrEvent(e, "custom logger initialization failed",
                      "initialized custom fxevent.Logger")
      [] OTHER -> <<>>

\* Mutant of logError: the level is slog.LevelError whatever UseErrorLevel
\* set.
logErrorAlwaysError(l) == LevelError

\* The level logError logs at: lvl := slog.LevelError; if l.errorLevel !=
\* nil { lvl = *l.errorLevel }.
logError(l) == IF l.errorLevel.set THEN l.errorLevel.v ELSE LevelError

\* The level logEvent logs at.
logEvent(l) == l.logLevel

\* The slog.Record of a call: l.Logger.Log(ctx, level, msg, fields...).
CallRecord(l, call) ==
    [Time |-> 1, Message |-> call.msg,
     Level |-> IF call.fn = "logError" THEN logError(l) ELSE logEvent(l)]

\* The minimum levels the observer is made with.
FxLevelers == {NilLeveler} \cup {ConstLeveler(l) : l \in Levels}

\* The store after slog.Logger.Log was called for the records: each one the
\* handler is Enabled for goes to Handle, which adds it.
RECURSIVE LogAll(_, _, _)
LogAll(o, c, records) ==
    IF records = <<>> THEN o
    ELSE LogAll(IF HandlerEnabled(c, levelVar, Head(records).Level)
                THEN DefaultAdd(o, LoggedRecord(Head(records), NilSlice)).o
                ELSE o,
                c, Tail(records))

InitFx ==
    /\ maxLogs = 0
    /\ store = NewObservedLogsDefault(maxLogs)
    /\ filtered = NewObservedLogsDefault(0)
    /\ heap = <<>>
    /\ panicked = FALSE
    /\ ret = NoRet
    /\ hist = [added |-> <<>>, adds |-> 0, takes |-> 0, before |-> <<>>,
               reads |-> 0]
    /\ NoThreads
    /\ \E lv \in FxLevelers :
          handlers = <<[NewHandler EXCEPT !.opts = [Level |-> lv]]>>
    /\ chain = <<>>
    /\ calls = <<>>
    /\ elsewhere = <<>>
    /\ NoLevels
    /\ NoQuery
    /\ NoRing

\* l.UseLogLevel(level), before the first event is logged.
UseLogLevel(level) ==
    /\ hist.adds = 0
    /\ fx' = [fx EXCEPT !.logLevel = level]
    /\ ret' = [op |-> "UseLogLevel", logs |-> <<>>, n |-> 0]
    /\ UNCHANGED <<maxLogs, store, filtered, heap, panicked, hist>>
    /\ UNCHANGED <<threadVars, handlerVars, elsewhere, local>>
    /\ UNCHANGED <<levelVars, query, ringVars, snap, mapped, versions>>

\* l.UseErrorLevel(level), before the first event is logged.
UseErrorLevel(level) ==
    /\ hist.adds = 0
    /\ fx' = [fx EXCEPT !.errorLevel = LevelPtr(level)]
    /\ ret' = [op |-> "UseErrorLevel", logs |-> <<>>, n |-> 0]
    /\ UNCHANGED <<maxLogs, store, filtered, heap, panicked, hist>>
    /\ UNCHANGED <<threadVars, handlerVars, elsewhere, local>>
    /\ UNCHANGED <<levelVars, query, ringVars, snap, mapped, versions>>

\* l.LogEvent(event) on an empty store.  calls keeps the event's Log
\* calls: the record and whether the error is among the fields; hist.adds
\* counts the events.
LogEvent(event) ==
    /\ store.logs = <<>>
    /\ hist.adds < MaxLogged
    /\ hist' = [hist EXCEPT !.adds = @ + 1]
    /\ LET cs      == LogEventCalls(event)
           records == [i \in 1..Len(cs) |-> CallRecord(fx, cs[i])]
       IN  /\ store' = LogAll(store, handlers[1], records)
           /\ calls' = [i \in 1..Len(cs) |->
                           [by |-> 1, rec |-> <<>>, record |-> records[i],
                            error |-> cs[i].error]]
    /\ ret' = [op |-> "LogEvent", logs |-> <<>>,
               n |-> IF event.err THEN 1 ELSE 0]
    /\ UNCHANGED <<maxLogs, filtered, heap, panicked>>
    /\ UNCHANGED <<threadVars, handlers, chain, elsewhere, local>>
    /\ UNCHANGED <<levelVars, query, ringVars, snap, mapped, versions, fx>>

\* logs := observedLogs.TakeAll(); the caller is done with the event.
FxTakeAll ==
    /\ store.logs # <<>>
    /\ LET r == DefaultTakeAll(store) IN
         /\ store' = r.o
         /\ ret' = [op |-> "TakeAll", logs |-> r.ret, n |-> 0]
    /\ calls' = <<>>
    /\ UNCHANGED <<maxLogs, filtered, heap, panicked, hist>>
    /\ UNCHANGED <<threadVars, handlers, chain, elsewhere, local>>
    /\ UNCHANGED <<levelVars, query, ringVars, snap, mapped, versions, fx>>

NextFx ==
    \/ \E level \in Levels : UseLogLevel(level)
    \/ \E level \in Levels : UseErrorLevel(level)
    \/ \E event \in FxEvents : LogEvent(event)
    \/ FxTakeAll

SpecFx == InitFx /\ [][NextFx]_vars

----------------------------------------------------------------------------
(* Properties of the store *)

\* The last n elements of s (all of s when it has fewer).
LastN(s, n) == IF Len(s) <= n THEN s ELSE SubSeq(s, Len(s) - n + 1, Len(s))

\* C1: on an unbounded store (maxLogs = 0), after N Add calls and no TakeAll,
\* All() is exactly the N records in call order and Len() is N.
C1_UnboundedKeepsAllInOrder ==
    (maxLogs = 0 /\ hist.takes = 0) =>
        /\ DefaultAll(store) = hist.added
        /\ DefaultLen(store) = Len(hist.added)
        /\ (ret.op = "All" => ret.logs = hist.added)
        /\ (ret.op = "Len" => ret.n = Len(hist.added))

C1_Witness ==
    /\ maxLogs = 0 /\ hist.takes = 0
    /\ ret.op = "All" /\ Len(ret.logs) = 3
    /\ ret.logs[1] # ret.logs[2]

\* C2: on a store bounded to K > 0, after N > K Add calls and no TakeAll,
\* Len() is K and All() is the last K records added, oldest first.
C2_BoundedKeepsLastK ==
    (maxLogs > 0 /\ hist.takes = 0 /\ Len(hist.added) > maxLogs) =>
        /\ ~panicked
        /\ DefaultLen(store) = maxLogs
        /\ DefaultAll(store) = LastN(hist.added, maxLogs)

C2_Witness ==
    /\ maxLogs = 2 /\ hist.takes = 0 /\ Len(hist.added) = 4
    /\ hist.added[3] # hist.added[4]
    /\ DefaultAll(store) = <<hist.added[3], hist.added[4]>>

C4_UsableAfterTakeAll ==
    (maxLogs > 0 /\ hist.takes > 0) =>
        /\ ~panicked
        /\ DefaultAll(store) = LastN(hist.added, maxLogs)

\* C5: TakeAll returns what All returned just before it, and leaves the store
\* with Len() = 0 and All() empty.
C5_TakeAllReturnsAllAndEmpties ==
    ret.op = "TakeAll" =>
        /\ ret.logs = hist.before
        /\ DefaultLen(store) = 0
        /\ DefaultAll(store) = <<>>

C5_Witness ==
    /\ ret.op = "TakeAll" /\ Len(ret.logs) = 2
    /\ ret.logs[1] # ret.logs[2]


\* How many records of the sequence logs carry time stamp id.
RECURSIVE Count(_, _)
Count(logs, id) ==
    IF logs = <<>> THEN 0
    ELSE (IF Head(logs).Record.Time = id THEN 1 ELSE 0) + Count(Tail(logs), id)

RECURSIVE CountAll(_, _)
CountAll(slices, id) ==
    IF slices = <<>> THEN 0
    ELSE Count(Head(slices), id) + CountAll(Tail(slices), id)

\* The records whose Add has been called but has not stored yet.
Pending ==
    {arg[t].Record.Time : t \in {u \in Threads : pc[u] \in {"AddLock", "AddBody", "AddStore"}}}

\* C6: with goroutines calling Add and TakeAll concurrently on an unbounded
\* store, every added record is returned by exactly one TakeAll or is still
\* in the store: none is lost, returned twice, or both returned and kept.
C6_NoRecordLostOrDuplicated ==
    \A id \in 1..hist.adds :
        Count(store.logs, id) + CountAll(taken, id)
            = IF id \in Pending THEN 0 ELSE 1

C6_Witness ==
    /\ Len(taken) = 1 /\ Len(taken[1]) = 2
    /\ store.logs # <<>>
    /\ \E t, u \in Threads : pc[t] = "AddUnlock" /\ pc[u] = "TakeAllLock"

----------------------------------------------------------------------------
(* Properties of the handler *)

\* The attributes stored with the i-th record of the store.
StoredAttrs(i) == Elems(heap, store.logs[i].Attrs)

\* What handler c holds: its flat attributes and its group stack.
View(c) == [attrs  |-> Elems(heap, handlers[c].attrs),
            groups |-> Elems(heap, handlers[c].groups)]

C8_WithAttrsLeavesHandlersAlone ==
    [][ret'.op = "WithAttrs" =>
          \A c \in 1..Len(handlers) : View(c)' = View(c)]_vars

\* C9: Handle changes neither the accumulated attributes nor the group stack
\* of any handler.
C9_HandleLeavesHandlersAlone ==
    [][ret'.op = "Handle" =>
          \A c \in 1..Len(handlers) : View(c)' = View(c)]_vars

\* The group attribute the chain of open groups gs makes of the record's
\* attributes rec: every group holds its WithAttrs attributes, then its child
\* group (a child without any content is left out, as slog leaves out empty
\* groups).
RECURSIVE Nest(_, _)
Nest(gs, rec) ==
    GroupAttr(Head(gs).name,
              Head(gs).attrs
              \o (IF Len(gs) = 1 THEN rec
                  ELSE LET child == Nest(Tail(gs), rec) IN
                       IF IsEmptyGroup(child) THEN <<>> ELSE <<child>>))

\* C10: a record logged through a handler with open groups holds the flat
\* attributes added before the first WithGroup, then one group attribute named
\* after the outermost group, nested as the chain was built, with the record's
\* own attributes at the end of the innermost group.
C10_GroupsNestAsDerived ==
    \A i \in 1..Len(calls) :
        chain[calls[i].by].groups # <<>> =>
            StoredAttrs(i) = chain[calls[i].by].flat
                             \o <<Nest(chain[calls[i].by].groups, calls[i].rec)>>

\* The attributes the WithAttrs calls on the way from New to handler c added,
\* those of the earliest call first.
RECURSIVE Accumulated(_)
Accumulated(c) ==
    IF c = 0 THEN <<>> ELSE Accumulated(chain[c].parent) \o chain[c].with

\* C11: a record logged through a handler without an open group is stored
\* with its own attributes first, then the attributes of the handler's
\* WithAttrs calls in the order of the calls.
C11_RecordAttrsThenHandlerAttrs ==
    \A i \in 1..Len(calls) :
        handlers[calls[i].by].groups.len = 0 =>
            StoredAttrs(i) = calls[i].rec \o Accumulated(calls[i].by)

C11_Witness ==
    /\ Len(calls) = 1
    /\ handlers[calls[1].by].groups.len = 0
    /\ calls[1].rec # <<>>
    /\ Len(Accumulated(calls[1].by)) = 2
    /\ Accumulated(calls[1].by)[1] # Accumulated(calls[1].by)[2]
    /\ Len(StoredAttrs(1)) = 3
    /\ StoredAttrs(1)[1] = calls[1].rec[1]

----------------------------------------------------------------------------
(* Properties of the minimum level *)

\* The minimum level configured with New when the LevelVar holds lvVar.
ConfiguredMin(lvVar) ==
    LET lv == handlers[1].opts.Level IN
    CASE lv.kind = "nil"      -> LevelInfo
      [] lv.kind = "Level"    -> lv.v
      [] lv.kind = "LevelVar" -> lvVar

\* C12: Enabled(level) answers true exactly when level is at least the
\* minimum configured with New: Info without a Level, else what the Leveler
\* reports when Enabled is called; a derived handler answers as the handler
\* New returned.
C12_EnabledIffAtLeastMinimum ==
    enabled.by # 0 =>
        (enabled.ok <=> enabled.level >= ConfiguredMin(enabled.at))

C12_Witness ==
    /\ enabled.by > 1
    /\ handlers[1].opts.Level.kind = "LevelVar"
    /\ enabled.at = LevelWarn
    /\ enabled.level = LevelInfo
    /\ ~enabled.ok
    /\ levelVar = LevelDebug

\* C13: Handle stores nothing for a record whose level is below the
\* minimum level of the handler it is called on.
C13_HandleDiscardsBelowMinimum ==
    [][ret'.op = "Handle" /\ store'.logs # store.logs =>
          store'.logs[Len(store'.logs)].Record.Level
              >= ConfiguredMin(levelVar)]_vars

----------------------------------------------------------------------------
(* Properties of the filters *)

\* Whether an attribute with the key, kind and value of a is in attrs or in
\* a group of attrs, at any depth.
RECURSIVE HasAttr(_, _)
HasAttr(attrs, a) ==
    \E i \in 1..Len(attrs) :
        \/ attrs[i] = a
        \/ attrs[i].Kind = "Group" /\ HasAttr(attrs[i].Group, a)

\* Whether record lr is one the predicate is meant to keep.
RECURSIVE Satisfies(_, _)
Satisfies(keep, lr) ==
    CASE keep.fn = "Message" -> lr.Record.Message = keep.msg
      [] keep.fn = "Attr"    -> HasAttr(Elems(heap, lr.Attrs), keep.attr)
      [] keep.fn = "FieldKey" ->
           keep.key \in {Elems(heap, lr.Attrs)[i].Key :
                            i \in 1..Len(Elems(heap, lr.Attrs))}
      [] keep.fn = "And"     -> Satisfies(keep.l, lr) /\ Satisfies(keep.r, lr)

\* The last call was store.Filter(keep) with one predicate.
Filtered1 == ret.op = "Filter" /\ Len(query) = 1

\* The last call was a FilterAttr.
FilteredAttr == Filtered1 /\ query[1].fn = "Attr"

\* C14: the store Filter(keep) returns holds the records of the source for
\* which keep returns true, in the order of the source; Filter fails only
\* when keep does.
C14_FilterIsOrderedSubsequence ==
    Filtered1 =>
        /\ ~panicked =>
              DefaultAll(filtered) =
                  SelectSeq(DefaultAll(store),
                            LAMBDA lr : KeepCall(heap, query[1], lr).ok)
        /\ panicked =>
              \E i \in 1..Len(store.logs) :
                  KeepCall(heap, query[1], store.logs[i]).panic

C14_Witness ==
    /\ Filtered1
    /\ ~panicked
    /\ Len(store.logs) = 3
    /\ Len(filtered.logs) = 2
    /\ filtered.logs[1] # filtered.logs[2]
    /\ filtered.logs[2] = store.logs[3]
    /\ filtered.logs[1] = store.logs[1]

\* C15: two chained filters give what one Filter with the conjunction of
\* their predicates gives: the same records in the same order, or the same
\* failure.
C15_ChainIsConjunction ==
    ret.op = "Filter" /\ Len(query) = 2 =>
        LET one == DefaultFilterKeep(heap, store,
                                     KeepBoth(query[1], query[2]))
        IN  /\ panicked = one.panic
            /\ ~panicked => DefaultAll(filtered) = DefaultAll(one.o)

C15_Witness ==
    /\ ret.op = "Filter"
    /\ query = <<KeepMessage("m1"), KeepAttr(IntAttr("a", 2))>>
    /\ ~panicked
    /\ Len(store.logs) = 3
    /\ Len(filtered.logs) = 1
    /\ filtered.logs[1] = store.logs[3]
    /\ store.logs[1].Record.Message = "m1"
    /\ store.logs[2].Record.Message = "m2"
    /\ HasAttr(Elems(heap, store.logs[2].Attrs), IntAttr("a", 2))

\* C16: FilterAttr(a) keeps exactly the records that hold an attribute with
\* the key, kind and value of a, at the top level or inside groups.
C16_FilterAttrFindsAtAnyDepth ==
    FilteredAttr =>
        /\ ~panicked
        /\ DefaultAll(filtered) =
               SelectSeq(DefaultAll(store),
                         LAMBDA lr : HasAttr(Elems(heap, lr.Attrs),
                                             query[1].attr))

\* C17: FilterAttr with a group as target keeps every record that holds a
\* group attribute with the target's key and content, at any depth.
C17_GroupTargetMatches ==
    FilteredAttr /\ query[1].attr.Kind = "Group" /\ ~panicked =>
        \A i \in 1..Len(store.logs) :
            HasAttr(Elems(heap, store.logs[i].Attrs), query[1].attr) =>
                \E j \in 1..Len(filtered.logs) :
                    filtered.logs[j] = store.logs[i]

\* C18: FilterAttr does not panic, whatever the target and the stored
\* attributes are; with a target of kind Any it keeps the records that hold
\* an attribute with the target's key and a deep-equal payload.
C18_FilterAttrNeverPanics ==
    FilteredAttr =>
        /\ ~panicked
        /\ query[1].attr.Kind = "Any" =>
              \A i \in 1..Len(store.logs) :
                  HasAttr(Elems(heap, store.logs[i].Attrs), query[1].attr)
                      <=> \E j \in 1..Len(filtered.logs) :
                              filtered.logs[j] = store.logs[i]

\* C19: a filter call that no record of the store satisfies returns an
\* empty store: Len() is 0, All() is empty and a further filter on it
\* returns an empty store again.
C19_EmptyResultIsUsable ==
    /\ ret.op = "Filter"
    /\ query # <<>>
    /\ \A i \in 1..Len(store.logs) :
           \E q \in 1..Len(query) : ~Satisfies(query[q], store.logs[i])
    =>  /\ ~panicked
        /\ DefaultLen(filtered) = 0
        /\ DefaultAll(filtered) = <<>>
        /\ \A keep \in Keeps :
               LET f == DefaultFilterKeep(heap, filtered, keep) IN
               ~f.panic /\ DefaultLen(f.o) = 0 /\ DefaultAll(f.o) = <<>>

----------------------------------------------------------------------------
(* Properties of the ring *)

\* C20: an ObservedLogsRing and an ObservedLogsDefault made with the same
\* maxLogs and given the same calls return the same results, and neither
\* fails where the other does not.
C20_RingEqualsDefault ==
    /\ ringRet = ret
    /\ ringPanicked = panicked

----------------------------------------------------------------------------
(* Properties of the slices handed out *)

\* C21: the slice All returned is a snapshot of its own: a caller that
\* replaces or swaps its elements changes nothing of what All, Len and Filter
\* on the store give afterwards, and an Add, TakeAll or Handle that follows
\* (an eviction in a bounded store included) changes none of its records.
C21_AllIsIndependentSnapshot ==
    [][/\ ret'.op \in {"Set", "Swap"} =>
            /\ DefaultAll(store') = DefaultAll(store)
            /\ DefaultLen(store') = DefaultLen(store)
            /\ \A msg \in Messages :
                  DefaultFilter(store', msg) = DefaultFilter(store, msg)
       /\ ret'.op \in {"Add", "TakeAll", "Handle"} => snap'.logs = snap.logs
      ]_vars

\* A caller replaced elements of the slice it got from a full bounded
\* store, and the store evicted a record of that slice afterwards.
C21_Witness ==
    /\ maxLogs = 2 /\ Len(snap.orig) = 2
    /\ snap.logs # snap.orig
    /\ ret.op \in {"Add", "Handle"}
    /\ Len(store.logs) = 2
    /\ store.logs[1] = snap.orig[2]

\* C22: AllUntimed returns the records All returns, in the same order, each
\* with the zero time, and the store keeps its times: All gives the same
\* before and after the call.
C22_AllUntimedResetsOnlyTheCopy ==
    [][ret'.op = "AllUntimed" =>
          /\ Len(ret'.logs) = Len(DefaultAll(store))
          /\ \A i \in 1..Len(ret'.logs) :
                /\ ret'.logs[i].Record.Time = 0
                /\ ret'.logs[i] =
                      [DefaultAll(store)[i] EXCEPT !.Record.Time = 0]
          /\ DefaultAll(store') = DefaultAll(store)
      ]_vars

C22_Witness ==
    /\ ret.op = "AllUntimed" /\ Len(ret.logs) = 2
    /\ ret.logs[1].Record.Time = 0
    /\ store.logs[1].Record.Time > 0
    /\ store.logs[2].Record.Time > store.logs[1].Record.Time

----------------------------------------------------------------------------
(* Properties of AttrsMap *)

\* The place of the last attribute of attrs with the key k.
LastWith(attrs, k) ==
    CHOOSE i \in 1..Len(attrs) :
        /\ attrs[i].Key = k
        /\ \A j \in (i + 1)..Len(attrs) : attrs[j].Key # k

\* The mapping of an attribute list: every key of an attribute other than
\* the elided marker maps to the value of the last attribute with that key,
\* a group to the mapping of its attributes.
RECURSIVE LastWriteWins(_)
LastWriteWins(attrs) ==
    [k \in {attrs[i].Key : i \in {j \in 1..Len(attrs) : attrs[j] # ZeroAttr}} |->
        LET a == attrs[LastWith(attrs, k)] IN
        IF a.Kind = "Group" THEN MapOf(LastWriteWins(a.Group)) ELSE AnyOf(a)]

\* C23: AttrsMap gives, for any attribute list, the mapping in which each key
\* maps to the value of the last attribute with that key at its nesting
\* level and each group to the mapping of its attributes; the record keeps
\* its attributes.
C23_AttrsMapIsLastWriteWins ==
    mapped.done =>
        /\ mapped.out = LastWriteWins(mapped.attrs)
        /\ mapped.after = mapped.attrs

\* Every attribute of attrs other than the elided marker has an entry in m,
\* and so have those of the groups that m holds as maps.
RECURSIVE Contributes(_, _)
Contributes(attrs, m) ==
    \A i \in 1..Len(attrs) :
        attrs[i] # ZeroAttr =>
            /\ attrs[i].Key \in DOMAIN m
            /\ (attrs[i].Kind = "Group" /\ LastWith(attrs, attrs[i].Key) = i) =>
                  /\ m[attrs[i].Key].isMap
                  /\ Contributes(attrs[i].Group, m[attrs[i].Key].m)

\* C24: AttrsMap leaves out only the elided marker (empty key, empty
\* value): every other attribute, at every nesting level, has an entry.
C24_OnlyTheElidedMarkerIsSkipped ==
    mapped.done =>
        /\ Contributes(mapped.attrs, mapped.out)
        /\ \A k \in DOMAIN mapped.out :
              \E i \in 1..Len(mapped.attrs) :
                  mapped.attrs[i].Key = k /\ mapped.attrs[i] # ZeroAttr

----------------------------------------------------------------------------
(* Properties of what loggers store *)

\* No attribute of attrs, at any nesting level, is slog.Attr{}: the empty
\* key with the empty value.
RECURSIVE NoElided(_)
NoElided(attrs) ==
    \A i \in 1..Len(attrs) :
        attrs[i] # ZeroAttr /\ NoElided(attrs[i].Group)

\* C25: no record stored through Handle holds, at any nesting level, an
\* attribute with an empty key and an empty value: those passed at the log
\* call or to WithAttrs are elided before the record is stored.
C25_StoredRecordsHoldNoElidedAttr ==
    \A i \in 1..Len(store.logs) : NoElided(StoredAttrs(i))

\* C29: the handlers derived from the handler New returned by any chain of
\* WithAttrs and WithGroup write to the one store New returned: the records
\* logged through the parent and its descendants are in that store, in the
\* order of the Handle calls.
C29_DerivedHandlersShareTheStore ==
    /\ elsewhere = <<>>
    /\ \A c \in 1..Len(handlers) : handlers[c].logs = TheStore
    /\ Len(store.logs) = Len(calls)
    /\ \A i \in 1..Len(calls) : store.logs[i].Record = calls[i].record

\* A handler derived with WithGroup logged first, its parent second.
C29_Witness ==
    /\ Len(calls) = 2 /\ Len(store.logs) = 2
    /\ chain[calls[1].by].parent = calls[2].by
    /\ chain[calls[1].by].groups # <<>>
    /\ store.logs[1].Record.Time = 1
    /\ store.logs[2].Record.Time = 2

----------------------------------------------------------------------------
(* Properties of goroutines logging at the same time *)

\* The goroutine whose Add call carries the record lr.
Caller(lr) == calls[lr.Record.Time].by

\* C26: when goroutines add to one unbounded store at the same time, every
\* Add that returned is stored exactly once: after all M calls returned Len is
\* M and All holds each record once, the records of one goroutine in the
\* order of its calls.
C26_ConcurrentAddsAllStoredOnce ==
    (hist.takes = 0 /\ \A t \in Threads : pc[t] = "idle") =>
        /\ DefaultLen(store) = hist.adds
        /\ \A id \in 1..hist.adds : Count(DefaultAll(store), id) = 1
        /\ \A i, j \in 1..Len(DefaultAll(store)) :
              (i < j /\ Caller(DefaultAll(store)[i]) = Caller(DefaultAll(store)[j]))
                  => DefaultAll(store)[i].Record.Time
                         < DefaultAll(store)[j].Record.Time

\* Two goroutines made four calls; the record of the second call was stored
\* before the record of the first.
C26_Witness ==
    /\ hist.takes = 0 /\ \A t \in Threads : pc[t] = "idle"
    /\ hist.adds = 4 /\ Len(store.logs) = 4
    /\ {calls[i].by : i \in 1..4} = {1, 2}
    /\ store.logs[1].Record.Time = 2


\* C27: whatever the interleaving of Add, TakeAll, Len, All, AllUntimed and
\* Filter calls of the goroutines on one store, every call that was made
\* returns in the end under fair scheduling: none waits for ever.
C27_EveryCallReturns ==
    \A t \in Threads : (pc[t] # "idle") ~> (pc[t] = "idle")

----------------------------------------------------------------------------
(* Properties of failure *)

\* C28: every operation of the store (Add, Len, All, AllUntimed, TakeAll,
\* Filter and the filters made of it), on ObservedLogsDefault and on
\* ObservedLogsRing, bounded or not, completes without a runtime failure in
\* every state a sequence of these operations reaches.
C28_NoOperationPanics ==
    /\ ~panicked
    /\ ~ringPanicked

----------------------------------------------------------------------------
(* Properties of the filters made of Filter *)

\* s holds sub as a run of neighbouring characters.
IsSubstring(sub, s) ==
    \E i \in 1..(Len(s) + 1) :
        /\ i + Len(sub) - 1 <= Len(s)
        /\ \A k \in 1..Len(sub) : s[i + k - 1] = sub[k]

\* C30: each filter made of Filter gives what Filter gives with its
\* predicate: FilterMessage(m) the records whose message is m,
\* FilterMessageSnippet(s) those whose message holds s as a plain substring,
\* FilterLevelExact(l) those whose level is l and none of a higher level,
\* each in the order of the store.
C30_ConvenienceFiltersKeepExactly ==
    /\ ret.op = "FilterMessage" =>
          /\ ~panicked
          /\ DefaultAll(filtered) =
                SelectSeq(DefaultAll(store),
                          LAMBDA lr : lr.Record.Message = query[1].msg)
    /\ ret.op = "FilterMessageSnippet" =>
          /\ ~panicked
          /\ DefaultAll(filtered) =
                SelectSeq(DefaultAll(store),
                          LAMBDA lr : IsSubstring(Chars(query[1].snippet),
                                                  Chars(lr.Record.Message)))
    /\ ret.op = "FilterLevelExact" =>
          /\ ~panicked
          /\ DefaultAll(filtered) =
                SelectSeq(DefaultAll(store),
                          LAMBDA lr : lr.Record.Level = query[1].level)
    /\ ret.op \in {"FilterMessage", "FilterMessageSnippet", "FilterLevelExact"}
          => DefaultAll(filtered) = DefaultAll(DefaultFilterKeep(heap, store,
                                                                 query[1]).o)

\* FilterLevelExact(Info) left out a record of a higher level that lies
\* between two records it kept.
C30_Witness ==
    /\ ret.op = "FilterLevelExact" /\ query[1].level = LevelInfo
    /\ Len(store.logs) = 3 /\ Len(filtered.logs) = 2
    /\ store.logs[2].Record.Level = LevelWarn
    /\ filtered.logs[1] = store.logs[1]
    /\ filtered.logs[2] = store.logs[3]
    /\ filtered.logs[1] # filtered.logs[2]

----------------------------------------------------------------------------
(* Properties of FilterFieldKey *)

\* The keys of the top-level attributes of record lr.
TopLevelKeys(lr) ==
    {Elems(heap, lr.Attrs)[i].Key : i \in 1..Len(Elems(heap, lr.Attrs))}

\* C40: FilterFieldKey(key) looks at the top-level attributes only: it keeps
\* a record iff one of them, of any kind, a group included, has the key; a
\* record that has the key inside a group only is not kept.
C40_FieldKeyIsTopLevelOnly ==
    (Filtered1 /\ query[1].fn = "FieldKey") =>
        /\ ~panicked
        /\ DefaultAll(filtered) =
              SelectSeq(DefaultAll(store),
                        LAMBDA lr : query[1].key \in TopLevelKeys(lr))

\* FilterFieldKey("ns") left out the record that holds ns inside the group
\* g and kept the record whose top-level attribute ns is a group.
C40_Witness ==
    /\ Filtered1 /\ query[1] = KeepFieldKey("ns") /\ ~panicked
    /\ Len(store.logs) = 2 /\ Len(filtered.logs) = 1
    /\ store.logs[1].Attrs = FilterSlice(2)
    /\ KeyAtAnyDepth(Elems(heap, store.logs[1].Attrs), "ns")
    /\ filtered.logs[1] = store.logs[2]
    /\ \E i \in 1..Len(Elems(heap, store.logs[2].Attrs)) :
          /\ Elems(heap, store.logs[2].Attrs)[i].Key = "ns"
          /\ Elems(heap, store.logs[2].Attrs)[i].Kind = "Group"

----------------------------------------------------------------------------
(* Properties of the ring before it is full *)

\* C32: a ring made with maxLogs = K > 0 that got n <= K records since it
\* was made or last emptied by TakeAll, n = 0 included, has Len() = n and
\* All() gives those n records in the order they were added.
C32_RingNotYetFullKeepsAll ==
    (maxLogs > 0 /\ ~ringPanicked /\ Len(hist.added) <= maxLogs) =>
        /\ RingLen(ring) = Len(hist.added)
        /\ ~RingAll(ring).panic
        /\ RingAll(ring).ret = hist.added

\* C33: Filter on a ring made with maxLogs = K > 0 hands the predicate the
\* records that were added and not evicted, oldest first: the result is the
\* kept ones of these in that order, and holds no cell that was never
\* written, also when fewer than K records were added.
C33_RingFilterSeesOnlyAddedRecords ==
    (maxLogs > 0 /\ ringRet.op = "Filter" /\ ~ringPanicked) =>
        ringFiltered.logs =
            SelectSeq(LastN(hist.added, maxLogs),
                      LAMBDA lr : KeepCall(heap, query[1], lr).ok)


----------------------------------------------------------------------------
(* Properties of the store Filter returns *)

\* C34: Filter and the convenience filters leave the store they are called
\* on unchanged, and the store they return is independent of it: Add and
\* TakeAll on one of the two never change the contents of the other.  This
\* holds for ObservedLogsDefault and for ObservedLogsRing.
C34_FilterResultIndependentOfSource ==
    [][/\ ret'.op = "Filter" =>
            /\ store' = store
            /\ ring' = ring
       /\ ret'.op \in {"Add", "TakeAll"} =>
            /\ filtered'.logs = filtered.logs
            /\ ringFiltered' = ringFiltered
       /\ ret'.op \in {"FilteredAdd", "FilteredTakeAll"} =>
            /\ store'.logs = store.logs
            /\ ring' = ring]_vars

\* A store that has records was filtered, some were kept and some were not,
\* and both stores were added to afterwards.
C34_Witness ==
    /\ ret.op = "FilteredAdd"
    /\ query # <<>>
    /\ Len(store.logs) >= 2
    /\ Len(filtered.logs) >= 2
    /\ \E i \in 1..Len(store.logs) :
          ~KeepCall(heap, query[1], store.logs[i]).ok
    /\ hist.adds = MaxStored

\* C38: the store Filter returns has the capacity policy of the store that
\* was filtered: when that one is bounded to maxLogs records, the returned
\* one holds at most maxLogs records, also after Add calls on it.
C38_FilterResultKeepsMaxLogs ==
    (maxLogs > 0 /\ ~panicked /\ ~ringPanicked) =>
        /\ Len(filtered.logs) <= maxLogs
        /\ RingLen(ringFiltered) <= maxLogs


----------------------------------------------------------------------------
(* Properties of WithGroup *)

\* The attribute list Handle on handler c would store for a record with the
\* attributes recordAttrs, with the arrays in h.
WouldStore(h, c, recordAttrs) ==
    LET r == HandlerHandle(h, c, recordAttrs) IN Elems(r.h, r.attrs)

\* Handler d is handler c or was derived from it, in any number of steps.
RECURSIVE DerivedFrom(_, _)
DerivedFrom(d, c) ==
    IF d = c THEN TRUE
    ELSE IF d < c \/ chain[d].parent = 0 THEN FALSE
    ELSE DerivedFrom(chain[d].parent, c)

\* Handler c was returned by WithGroup.
ByWithGroup(c) ==
    chain[c].parent # 0 /\ chain[c].with = <<>> /\ chain[c].groups # <<>>

\* The handler the step just taken was called on.
Receiver ==
    IF ret.op = "Handle" THEN calls[Len(calls)].by
    ELSE chain[Len(chain)].parent

\* The group handler c has on top of its group stack, with the arrays in h.
TopGroup(h, c) == Elems(h, c.groups)[c.groups.len]

\* C35: WithGroup(name) changes no existing handler, the receiver included:
\* every one holds the attributes and groups it held and would store the
\* same attributes for a record; the group pushed for the handler returned
\* has the name and no attributes, and stays as it is under every call that
\* is not made on that handler or on one derived from it.
C35_WithGroupLeavesReceiverAlone ==
    [][/\ ret'.op = "WithGroup" =>
            /\ \A c \in 1..Len(handlers) :
                  /\ View(c)' = View(c)
                  /\ \A recordAttrs \in RecordAttrLists :
                        WouldStore(heap', handlers[c], recordAttrs)
                            = WouldStore(heap, handlers[c], recordAttrs)
            /\ LET co == handlers'[Len(handlers')] IN
                  /\ co.groups.len = handlers[Receiver'].groups.len + 1
                  /\ TopGroup(heap', co).Group = <<>>
                  /\ TopGroup(heap', co).Kind = "Group"
       /\ \A c \in 1..Len(handlers) :
            (ByWithGroup(c) /\ ~DerivedFrom(Receiver', c)) =>
                TopGroup(heap', handlers[c]) = TopGroup(heap, handlers[c])]_vars

\* WithGroup was called on a handler that has an open group with attributes
\* in it.
C35_Witness ==
    /\ ret.op = "WithGroup"
    /\ LET p == Receiver IN
          /\ chain[p].groups # <<>>
          /\ chain[p].groups[Len(chain[p].groups)].attrs # <<>>
          /\ TopGroup(heap, handlers[p]).Group # <<>>
          /\ TopGroup(heap, handlers[Len(handlers)]).Group = <<>>


----------------------------------------------------------------------------
(* Properties of concurrent Handle calls *)

\* Goroutine t is inside Handle at a place from which it still reads or
\* writes the array g of c.groups.
InGroups(t, g) ==
    /\ pc[t] \in {"HandleGroup", "HandleGroupWrite", "HandleFold"}
    /\ handlers[arg[t].c].groups.arr = g

\* The next step of goroutine t writes into the array of c.groups: the
\* assignment of the current group, or the fold of a stack of two or more.
WritesGroups(t) ==
    \/ pc[t] = "HandleGroupWrite"
    \/ pc[t] = "HandleFold" /\ handlers[arg[t].c].groups.len >= 2

\* C36: with goroutines calling Handle concurrently on handlers with open
\* groups, every stored record holds the attributes its call stores when it
\* runs alone on the handler as it was made, and no call writes, outside
\* any lock, into an array another call running at that time reads or
\* writes.
C36_ConcurrentHandleIsolated ==
    [][/\ \A i \in 1..Len(store'.logs) :
             Elems(heap', store'.logs[i].Attrs)
                 = WouldStore(RaceSetup.h, handlers[calls'[i].by],
                              calls'[i].rec)
       /\ \A t \in Threads :
             (WritesGroups(t) /\ pc'[t] # pc[t]) =>
                 ~\E u \in Threads \ {t} :
                      InGroups(u, handlers[arg[t].c].groups.arr)]_vars


----------------------------------------------------------------------------
(* Properties of Filter under concurrent writers *)

\* What Filter(keep) returns for a store that holds logs.
KeptOf(logs, keep) == SelectSeq(logs, LAMBDA lr : KeepCall(heap, keep, lr).ok)

\* C37: a Filter call that runs while other goroutines call Add and TakeAll
\* returns the kept entries of the contents the store had at one instant
\* between the call and its return, never a mix of two contents.
C37_FilterIsConsistentSnapshot ==
    [][\A t \in Threads :
          (pc[t] = "FilterRUnlock" /\ pc'[t] = "idle") =>
              \E k \in arg[t].from..Len(versions) :
                  filtered'.logs = KeptOf(versions[k], arg[t].keep)]_vars

\* A Filter call on a full bounded store was made before an Add call that
\* evicted a record wrote to the store, and returned after it with the kept
\* entries of the new contents, which are not those of the old.
C37_Witness ==
    /\ ret.op = "Filter"
    /\ maxLogs = MaxK
    /\ ret.n = 1 /\ Len(versions) = 2
    /\ Len(versions[1]) = MaxK /\ Len(versions[2]) = MaxK
    /\ filtered.logs = KeptOf(versions[2], query[1])
    /\ filtered.logs # KeptOf(versions[1], query[1])


----------------------------------------------------------------------------
(* Properties of a predicate that calls the store *)

\* Goroutine t is in Add or TakeAll called by the predicate of its Filter
\* call, before o.mu.Lock() returned.
WaitsInPredicate(t) == pc[t] = "Lock" /\ arg[t].outer # NoArg

\* C39: Filter calls the predicate with the store's read lock held; a
\* predicate that calls Add or TakeAll on that store waits in o.mu.Lock()
\* for the read lock of its own Filter call and stays there: the Filter call
\* never returns.
C39_PredicateCallingStoreDeadlocks ==
    [][\A t \in Threads :
          /\ WaitsInPredicate(t)' => t \in mu'.r
          /\ WaitsInPredicate(t) => WaitsInPredicate(t)'
          /\ (pc[t] = "FilterStep" /\ arg[t].keep.fn = "Calls"
                /\ local[t].i <= Len(local[t].logs))
                => pc'[t] \in {"FilterStep", "Lock"}]_vars

\* The predicate of a Filter call called Add; no other goroutine holds the
\* lock or is in a call, so that the goroutine waits for itself only.
C39_Witness ==
    \E t \in Threads :
        /\ WaitsInPredicate(t)
        /\ arg[t].op = "Add"
        /\ mu = [w |-> 0, r |-> {t}]
        /\ \A u \in Threads \ {t} : pc[u] = "idle"
        /\ hist.adds + hist.takes > 0


----------------------------------------------------------------------------
(* Properties of fxlogger.Logger *)

\* The level set by UseErrorLevel, slog.LevelError when it was not called.
ErrorLevelInUse == IF fx.errorLevel.set THEN fx.errorLevel.v ELSE LevelError

\* The records of the last LogEvent call whose fields hold the error.
ErrorRecords ==
    LET cs == SelectSeq(calls, LAMBDA c : c.error) IN
    [i \in 1..Len(cs) |-> LoggedRecord(cs[i].record, NilSlice)]

\* The observer's minimum level is slog.LevelInfo.
MinimumIsInfo == handlers[1].opts.Level \in {NilLeveler, ConstLeveler(LevelInfo)}

====
